---------------------------- MODULE Spec2Model ----------------------------
(***************************************************************************)
(* A model of the file synchronisation server.                            *)
(*                                                                         *)
(* The repository holds two server implementations:                        *)
(*   - server/main.py + server/storage.py + server/models.py: the          *)
(*     FileService over the content-addressed StorageManager (SpecFS,      *)
(*     SpecStore, SpecStoreRaw);                                           *)
(*   - server/api/routes.py + server/core/sync_manager.py +                *)
(*     server/models/file.py: the event-based SyncManager (SpecSM, and     *)
(*     SpecSMC for two requests whose read and write interleave).          *)
(***************************************************************************)
EXTENDS Integers, Sequences, FiniteSets, TLC

VARIABLES
    files,      \* FileService: rows of the "files" table; file_id = index
    versions,   \* FileService: rows of the "file_versions" table
    content,    \* StorageManager: the content/ directory, path -> bytes
    chunks,     \* StorageManager: the chunks/ directory, chunk hash -> bytes
    temp,       \* StorageManager: the temp/ directory, <<upload_id, n>> -> bytes
    resp,       \* the response of the last request
    sent,       \* history: the bytes each file_id was uploaded with
    putLog,     \* history: hash -> the bytes last put under it and not deleted since
    smFiles,    \* SyncManager: rows of the "files" table of server/models/file.py
    smDisk,     \* FileManager: the storage directory, file name -> stored bytes
    smResult,   \* SyncManager: the result of the last process_file_event
    reqs,       \* requests in flight: the event, the row read, the position
    fmStored,   \* history: the files FileManager.store_file wrote (name, bytes)
    stCalls,    \* StorageManager calls in flight: thread -> operation and position
    upload,     \* a chunked upload: the file, its chunks to send, those arrived
    fileState,  \* client: the file_state table, file_path -> row
    syncQueue,  \* client: the sync_queue table, rows in id order (id = index)
    callbacks,  \* client: how many times the watcher's callback was invoked
    cliLast,    \* client: the last call on the watcher and what it returned
    syncInProgress, \* SyncClient.sync_in_progress
    syncThreads,    \* SyncClient: thread -> its position in sync_once
    accepted,   \* history: the ids of the queued events the server accepted
    attempts,   \* history: event id -> how many times upload_file ran for it
    folder,     \* client: the sync folder, file_path -> checksum of the file there
    dlLog,      \* client: what the last download phase did, record by record
    dlPulled,   \* history: how many records the last download phase was given
    lastSync,   \* ClientSyncManager: sync_state["last_sync"], 0 while unset
    psLast,     \* history: the last periodic_sync, its mark before and its failures
    wsConns,    \* server/main.py ConnectionManager.active_connections: socket by client id
    wsUsers,    \* server/api/websocket.py user_connections: user ids, insertion order
    stopSync,   \* SyncClient.stop_sync, the Event the timer loop tests
    stopper,    \* SyncClient.stop(): not called, waiting in join, returned
    processing, \* FileWatcherHandler._processing_events: <<event kind, path>> keys
    wThreads,   \* watcher threads: position in process_file_event, and its key
    wsLast,     \* history: the last publish, who was registered, who received it
    pulled,     \* history: the server rows the client's pulls have returned
    isWatching, \* FileWatcher.is_watching: the client runs and observes the folder
    wsUserSocket, \* server/api/websocket.py user_connections: socket by user id
    wsActive,   \* server/api/websocket.py active_connections: the list of sockets
    wsOpen      \* the websocket_endpoint handlers inside their loop, oldest first

fsVars == <<files, versions, sent>>
storeVars == <<content, chunks, temp, putLog>>
smVars == <<smFiles, smDisk, smResult>>
\* The state of the components that the server's request handlers above
\* never touch.
watcherVars == <<fileState, syncQueue, callbacks, cliLast>>
uploadHist == <<accepted, attempts>>
markVars == <<lastSync, psLast>>
apiVars == <<wsUsers, wsUserSocket, wsActive>>
pubVars == <<wsConns, apiVars, wsLast, wsOpen>>
beyondPull == <<pubVars, pulled, isWatching>>
dlVars == <<dlLog, dlPulled>>
pullVars == <<folder, dlVars, markVars, beyondPull>>
stopVars == <<stopSync, stopper>>
syncVars == <<syncInProgress, syncThreads, stopVars, uploadHist, pullVars>>
inflightVars == <<processing, wThreads>>
beyondChunks == <<watcherVars, syncVars, inflightVars>>
beyondFM == <<stCalls, upload, beyondChunks>>
extVars == <<fmStored, beyondFM>>

(***************************************************************************)
(* Bounds of the model.                                                    *)
(***************************************************************************)
MaxFiles == 2     \* most rows of the files table
MaxChunks == 2    \* most chunks of one chunked upload
MaxRequests == 3  \* most /sync/event requests of one concurrent run
MaxQueue == 2     \* most rows of the client's sync_queue table

Users == {"u1", "u2"}
Paths == {"a", "b"}
Salts == {7, 9}
UploadIds == {"up1"}

\* The byte sequences uploaded and stored, the empty one among them.
ByteSeqs == {<<>>, <<0>>, <<1>>}
\* The bytes of one chunk of a chunked upload.
ChunkData == {<<0>>, <<1>>}

(***************************************************************************)
(* hashlib.sha256(data).hexdigest(): a digest of six base-4 digits,        *)
(* injective on the byte sequences of the model (the storage contract      *)
(* trusts SHA-256 to be collision free). Distinct digests may share their  *)
(* first two or first four digits, as distinct SHA-256 digests may.        *)
(***************************************************************************)
RECURSIVE Num(_)
Num(b) == IF b = <<>> THEN 0 ELSE 10 * Num(SubSeq(b, 1, Len(b) - 1)) + b[Len(b)] + 1

SHA256(b) ==
    LET n == (Num(b) * 5) % 4096
    IN  << n \div 1024, (n \div 256) % 4, (n \div 64) % 4,
           (n \div 16) % 4, (n \div 4) % 4, n % 4 >>

Found(b) == [found |-> TRUE, data |-> b]
NotFound == [found |-> FALSE, data |-> <<>>]

Write(dir, path, data) ==
    [p \in (DOMAIN dir) \cup {path} |-> IF p = path THEN data ELSE dir[p]]

Remove(dir, path) == [p \in (DOMAIN dir) \ {path} |-> dir[p]]

(***************************************************************************)
(* StorageManager                                                          *)
(***************************************************************************)
\* Mutant: the file name is the first four digits of the hash.
GetContentPath_Truncated(content_hash) ==
    << SubSeq(content_hash, 1, 2), SubSeq(content_hash, 3, 4), SubSeq(content_hash, 1, 4) >>

GetContentPath(content_hash) ==
    << SubSeq(content_hash, 1, 2), SubSeq(content_hash, 3, 4), content_hash >>

\* Mutant: the write is not guarded by the existence check.
StoreFileContent_Overwrite(dir, file_data, content_hash) ==
    Write(dir, GetContentPath(content_hash), file_data)

\* The content directory after store_file_content(file_data, content_hash).
StoreFileContent(dir, file_data, content_hash) ==
    LET storage_path == GetContentPath(content_hash)
    IN  IF storage_path \notin DOMAIN dir
        THEN Write(dir, storage_path, file_data)
        ELSE dir

RetrieveFileContent(dir, content_hash) ==
    LET storage_path == GetContentPath(content_hash)
    IN  IF storage_path \in DOMAIN dir THEN Found(dir[storage_path]) ELSE NotFound

DeleteFileContent(dir, content_hash) ==
    LET storage_path == GetContentPath(content_hash)
    IN  IF storage_path \in DOMAIN dir THEN Remove(dir, storage_path) ELSE dir

GetChunkPath(chunk_hash) == chunk_hash

\* The chunks directory after store_file_chunk(upload_id, chunk_number, chunk_data).
StoreChunkBlob(dir, chunk_data) ==
    LET chunk_path == GetChunkPath(SHA256(chunk_data))
    IN  IF chunk_path \notin DOMAIN dir
        THEN Write(dir, chunk_path, chunk_data)
        ELSE dir

\* The temp directory after store_file_chunk: temp/<upload_id>/chunk_<n>.
StoreTempChunk(dir, upload_id, chunk_number, chunk_data) ==
    Write(dir, <<upload_id, chunk_number>>, chunk_data)

Hashes == {SHA256(b) : b \in ByteSeqs}
ChunkNumbers == 0..(MaxChunks - 1)

\* ContentStore.put as FileService.upload_file performs it (lines 190-194):
\* the hash passed is the SHA-256 of the bytes passed.
Put(file_data) ==
    LET content_hash == SHA256(file_data)
    IN  /\ content' = StoreFileContent(content, file_data, content_hash)
        /\ putLog' = Write(putLog, content_hash, file_data)
        /\ resp' = [op |-> "store", hash |-> content_hash, data |-> file_data]
        /\ UNCHANGED <<chunks, temp, fsVars, smVars, reqs, extVars>>

\* A call of store_file_content with any hash.
StoreRaw(file_data, content_hash) ==
    /\ content' = StoreFileContent(content, file_data, content_hash)
    /\ resp' = [op |-> "store", hash |-> content_hash, data |-> file_data]
    /\ UNCHANGED <<chunks, temp, putLog, fsVars, smVars, reqs, extVars>>

Retrieve(content_hash) ==
    /\ resp' = [op |-> "retrieve", hash |-> content_hash,
                data |-> RetrieveFileContent(content, content_hash)]
    /\ UNCHANGED <<storeVars, fsVars, smVars, reqs, extVars>>

DeleteContent(content_hash) ==
    /\ content' = DeleteFileContent(content, content_hash)
    /\ putLog' = IF content_hash \in DOMAIN putLog
                 THEN Remove(putLog, content_hash) ELSE putLog
    /\ resp' = [op |-> "delete", hash |-> content_hash, data |-> <<>>]
    /\ UNCHANGED <<chunks, temp, fsVars, smVars, reqs, extVars>>

StoreFileChunk(upload_id, chunk_number, chunk_data) ==
    /\ chunks' = StoreChunkBlob(chunks, chunk_data)
    /\ temp' = StoreTempChunk(temp, upload_id, chunk_number, chunk_data)
    /\ resp' = [op |-> "chunk", hash |-> SHA256(chunk_data), data |-> chunk_data]
    /\ UNCHANGED <<content, putLog, fsVars, smVars, reqs, extVars>>

(***************************************************************************)
(* FileService (server/storage.py) behind the endpoints of server/main.py  *)
(***************************************************************************)
\* CompressionManager.should_compress("dummy", 0.9): the sample is read from
\* a file literally named "dummy", the open fails and the answer is False.
ShouldCompress == FALSE

\* Mutant: the upload is encrypted, under a fresh salt each time.
ProcessedData_Encrypted(file_data, salt) == <<salt>> \o file_data

\* upload_file, lines 175-187: the endpoint passes neither encrypt nor
\* password, so the stored bytes are the uploaded bytes; with encryption
\* the bytes would be a ciphertext under a fresh random salt.
ProcessedData(file_data, salt) == file_data

Live(rows, user_id, file_path) ==
    {i \in DOMAIN rows : /\ rows[i].user_id = user_id
                         /\ rows[i].file_path = file_path
                         /\ ~rows[i].is_deleted}

RowsAt(rows, user_id, file_path) ==
    {i \in DOMAIN rows : rows[i].user_id = user_id /\ rows[i].file_path = file_path}

\* The File row upload_file adds (version_number and is_deleted take the
\* column defaults of server/models.py). The timestamps of the row are
\* read by no operation modelled here and are left out.
NewFileRow(user_id, file_path, file_data, storage_path) ==
    [ user_id |-> user_id, file_path |-> file_path,
      file_size |-> Len(file_data), checksum |-> SHA256(file_data),
      version_number |-> 1, is_deleted |-> FALSE,
      storage_path |-> storage_path ]

NewVersionRow(file_id, file_data, storage_path) ==
    [ file_id |-> file_id, version_number |-> 1,
      checksum |-> SHA256(file_data), storage_path |-> storage_path,
      file_size |-> Len(file_data), is_current_version |-> TRUE ]

\* POST /files/upload
UploadFilePass(user_id, file_path, file_data, salt) ==
    LET processed_data == ProcessedData(file_data, salt)
        content_hash == SHA256(processed_data)
        storage_path == GetContentPath(content_hash)
        file_id == Len(files) + 1
    IN  /\ Len(files) < MaxFiles
        /\ content' = StoreFileContent(content, processed_data, content_hash)
        /\ files' = Append(files, NewFileRow(user_id, file_path, file_data, storage_path))
        /\ versions' = Append(versions, NewVersionRow(file_id, file_data, storage_path))
        /\ sent' = Append(sent, file_data)

UploadFile(user_id, file_path, file_data, salt) ==
    /\ UploadFilePass(user_id, file_path, file_data, salt)
    /\ UNCHANGED <<chunks, temp, putLog, resp, smVars, reqs, extVars>>

\* FileService.download_file: None is NotFound.
DownloadFileResult(file_id, user_id) ==
    LET recs == {i \in DOMAIN files : /\ i = file_id
                                      /\ files[i].user_id = user_id
                                      /\ ~files[i].is_deleted}
        vers == {v \in DOMAIN versions : /\ versions[v].file_id = file_id
                                         /\ versions[v].is_current_version}
    IN  IF recs = {} THEN NotFound
        ELSE IF vers = {} THEN NotFound
        ELSE LET version == versions[CHOOSE v \in vers : \A w \in vers : v <= w]
                 \* os.path.basename(version.storage_path)
                 content_hash == version.storage_path[3]
                 processed_data == RetrieveFileContent(content, content_hash)
             IN  IF ~processed_data.found \/ processed_data.data = <<>>
                 THEN NotFound
                 ELSE processed_data

\* GET /files/{file_id}/download
DownloadFile(file_id, user_id) ==
    /\ file_id \in DOMAIN files
    /\ LET file_data == DownloadFileResult(file_id, user_id)
       IN  resp' = [ op |-> "download", file_id |-> file_id,
                     status |-> IF file_data.found THEN 200 ELSE 404,
                     body |-> file_data.data ]
    /\ UNCHANGED <<fsVars, storeVars, smVars, reqs, extVars>>

\* DELETE /files/{file_id}
DeleteFile(file_id, user_id) ==
    /\ file_id \in DOMAIN files
    /\ IF files[file_id].user_id = user_id
       THEN files' = [files EXCEPT ![file_id].is_deleted = TRUE]
       ELSE files' = files
    /\ UNCHANGED <<versions, sent, resp, storeVars, smVars, reqs, extVars>>

\* FileService.list_user_files: the live rows of the user (GET /files/).
ListUserFiles(user_id) ==
    {i \in DOMAIN files : files[i].user_id = user_id /\ ~files[i].is_deleted}

(***************************************************************************)
(* SyncManager (server/core/sync_manager.py) behind POST /sync/event       *)
(***************************************************************************)
ConflictWindow == 300

\* A content as a client reports it: the checksum and the size of a file.
Contents == {[checksum |-> "h1", size |-> 1], [checksum |-> "h2", size |-> 2]}
Timestamps == {0, 200, 300}
\* Version vectors over one client key, as that key's counter (0: {}).
VersionVectors == {0, 1}

Event(file_path, event_type, checksum, size, timestamp, version_vector) ==
    [file_path |-> file_path, event_type |-> event_type, checksum |-> checksum,
     size |-> size, timestamp |-> timestamp, version_vector |-> version_vector]

\* The Create/Modify and Delete events on path "a".
EventsOnA ==
    {Event("a", k, c.checksum, c.size, t, v) :
        k \in {"create", "modify"}, c \in Contents, t \in Timestamps, v \in VersionVectors}
    \cup {Event("a", "delete", "", 0, t, 0) : t \in Timestamps}

\* One Create and one Delete on each path.
BasicEvents ==
    {Event(p, "create", "h1", 1, 0, 0) : p \in Paths}
    \cup {Event(p, "delete", "", 0, 200, 0) : p \in Paths}

SMEvents == EventsOnA \cup BasicEvents

\* The requests posted to /sync/event: user u1 posts every event, the other
\* users post the basic ones.
SMRequests ==
    {<<e, "u1">> : e \in SMEvents} \cup {<<e, u>> : e \in BasicEvents, u \in Users}

Abs(x) == IF x < 0 THEN -x ELSE x

NoId == <<>>
NoVersion == [checksum |-> "", modified_at |-> -1]
NoResult == [status |-> "none", resolution |-> "", file_id |-> NoId,
             current_version |-> NoVersion]
Result(status, resolution, file_id, current_version) ==
    [status |-> status, resolution |-> resolution, file_id |-> file_id,
     current_version |-> current_version]

\* db.query(File).filter(File.path == ..., File.owner_id == ...): the rows
\* .first() may return (tombstones included).
Matching(table, file_path, owner_id) ==
    {r \in table : r.path = file_path /\ r.owner_id = owner_id}

\* The row read by process_file_event, as a set: empty for None.
ExistingFile(table, file_path, owner_id) ==
    IF Matching(table, file_path, owner_id) = {}
    THEN {{}}
    ELSE {{r} : r \in Matching(table, file_path, owner_id)}

\* File.id: a uuid4, unique among the rows.
FreshId(table, file_path, owner_id) ==
    <<owner_id, file_path, Cardinality(Matching(table, file_path, owner_id)) + 1>>

\* The UPDATE a commit issues for the row of `old`: the attributes whose
\* new value differs from the value loaded are written, the others keep
\* what the table holds.
Col(cur, loaded, new) == IF new = loaded THEN cur ELSE new

UpdateFromEvent(table, old, event) ==
    {IF r.id = old.id
     THEN [r EXCEPT !.checksum = Col(r.checksum, old.checksum, event.checksum),
                    !.size = Col(r.size, old.size, event.size),
                    !.version_vector =
                        Col(r.version_vector, old.version_vector, event.version_vector),
                    !.modified_at = Col(r.modified_at, old.modified_at, event.timestamp)]
     ELSE r : r \in table}

\* FileManager.delete_file(file_id)
FMDeleteFile(disk, file_id) ==
    IF file_id \in DOMAIN disk THEN Remove(disk, file_id) ELSE disk

DetectConflict(existing_file, event) ==
    IF existing_file.checksum # event.checksum
    THEN Abs(existing_file.modified_at - event.timestamp) < ConflictWindow
    ELSE FALSE

\* Mutant: the later timestamp loses the conflict.
ResolveConflict_EarlierWins(table, disk, existing_file, event) ==
    IF event.timestamp < existing_file.modified_at
    THEN [table |-> UpdateFromEvent(table, existing_file, event), disk |-> disk,
          result |-> Result("conflict_resolved", "new_version_wins",
                            existing_file.id, NoVersion)]
    ELSE [table |-> table, disk |-> disk,
          result |-> Result("conflict_resolved", "existing_version_wins",
                            existing_file.id,
                            [checksum |-> existing_file.checksum,
                             modified_at |-> existing_file.modified_at])]

ResolveConflict(table, disk, existing_file, event) ==
    IF event.timestamp > existing_file.modified_at
    THEN [table |-> UpdateFromEvent(table, existing_file, event), disk |-> disk,
          result |-> Result("conflict_resolved", "new_version_wins",
                            existing_file.id, NoVersion)]
    ELSE [table |-> table, disk |-> disk,
          result |-> Result("conflict_resolved", "existing_version_wins",
                            existing_file.id,
                            [checksum |-> existing_file.checksum,
                             modified_at |-> existing_file.modified_at])]

HandleDelete(table, disk, existing, event) ==
    IF existing # {}
    THEN LET existing_file == CHOOSE r \in existing : TRUE
         IN  [table |-> {IF r.id = existing_file.id
                         THEN [r EXCEPT !.is_deleted = TRUE,
                                        !.modified_at = Col(r.modified_at,
                                                            existing_file.modified_at,
                                                            event.timestamp)]
                         ELSE r : r \in table},
              disk |-> FMDeleteFile(disk, existing_file.id),
              result |-> Result("deleted", "", existing_file.id, NoVersion)]
    ELSE [table |-> table, disk |-> disk,
          result |-> Result("not_found", "", NoId, NoVersion)]

HandleCreateOrModify(table, disk, existing, event, user) ==
    IF existing # {}
    THEN LET existing_file == CHOOSE r \in existing : TRUE
         IN  IF DetectConflict(existing_file, event)
             THEN ResolveConflict(table, disk, existing_file, event)
             ELSE [table |-> UpdateFromEvent(table, existing_file, event), disk |-> disk,
                   result |-> Result("updated", "", existing_file.id, NoVersion)]
    ELSE LET new_file == [id |-> FreshId(table, event.file_path, user),
                          path |-> event.file_path, checksum |-> event.checksum,
                          size |-> event.size, owner_id |-> user,
                          version_vector |-> event.version_vector,
                          modified_at |-> event.timestamp, is_deleted |-> FALSE]
         IN  [table |-> table \cup {new_file}, disk |-> disk,
              result |-> Result("created", "", new_file.id, NoVersion)]

\* process_file_event after its query returned `existing`.
HandleEvent(table, disk, existing, event, user) ==
    IF event.event_type = "delete"
    THEN HandleDelete(table, disk, existing, event)
    ELSE HandleCreateOrModify(table, disk, existing, event, user)

\* process_file_event run from its query to its return with no other
\* request in between (one row matches at most then).
ProcessFileEvent(table, disk, event, user) ==
    HandleEvent(table, disk,
                CHOOSE ex \in ExistingFile(table, event.file_path, user) : TRUE,
                event, user)

\* POST /sync/event
SyncEvent(event, user) ==
    LET out == ProcessFileEvent(smFiles, smDisk, event, user)
    IN  /\ smFiles' = out.table
        /\ smDisk' = out.disk
        /\ smResult' = out.result
        /\ UNCHANGED <<fsVars, storeVars, resp, reqs, extVars>>

\* Two /sync/event requests are served concurrently: each runs the query of
\* process_file_event, and later the handler on the row it read.
SMCEvents ==
    {Event("a", k, c.checksum, c.size, t, 0) :
        k \in {"create", "modify"}, c \in Contents, t \in Timestamps}
    \cup {Event("a", "delete", "", 0, t, 0) : t \in Timestamps}

BeginRequest(event, user) ==
    /\ Len(reqs) < MaxRequests
    /\ \E ex \in ExistingFile(smFiles, event.file_path, user) :
          reqs' = Append(reqs, [event |-> event, user |-> user,
                                existing |-> ex, pc |-> "read"])
    /\ UNCHANGED <<smVars, fsVars, storeVars, resp, extVars>>

FinishRequest(k) ==
    /\ k \in DOMAIN reqs
    /\ reqs[k].pc = "read"
    /\ LET out == HandleEvent(smFiles, smDisk, reqs[k].existing,
                              reqs[k].event, reqs[k].user)
       IN  /\ smFiles' = out.table
           /\ smDisk' = out.disk
           /\ smResult' = out.result
    /\ reqs' = [reqs EXCEPT ![k].pc = "done"]
    /\ UNCHANGED <<fsVars, storeVars, resp, extVars>>

\* SyncManager.get_file_list
GetFileList(table, user_id) == {r \in table : r.owner_id = user_id /\ ~r.is_deleted}

\* SyncManager.get_changes_since
GetChangesSince(table, user_id, timestamp) ==
    {r \in table : r.owner_id = user_id /\ r.modified_at > timestamp}

(***************************************************************************)
(* FileManager (server/core/file_manager.py) and the file endpoints of     *)
(* server/api/routes.py                                                    *)
(***************************************************************************)
\* Fernet.generate_key(): every FileManager() makes its own FileEncryption,
\* and every request makes its own FileManager().
FernetKeys == {7, 9}

\* A Fernet token: the plaintext under the key; only that key opens it.
Encrypt(key, data) == <<key>> \o data
CanDecrypt(key, token) == token # <<>> /\ token[1] = key
Decrypt(key, token) == Tail(token)

\* FileEvent.id: the default str(uuid.uuid4()) is evaluated once, when the
\* class is defined, so every event built without an id carries this one.
EventId == <<"event", "", 0>>

\* The names FileManager is called with.
FileIds == {EventId, <<"u1", "a", 1>>}

FMStoreFile(disk, file_data, file_id, key, encrypt) ==
    Write(disk, file_id, IF encrypt THEN Encrypt(key, file_data) ELSE file_data)

FMRetrieveFile(disk, file_id, key, decrypt) ==
    IF file_id \notin DOMAIN disk THEN NotFound
    ELSE LET data == disk[file_id]
         IN  IF decrypt
             THEN IF CanDecrypt(key, data)
                  THEN Found(Decrypt(key, data))
                  ELSE Found(data)      \* "If decryption fails, return raw data"
             ELSE Found(data)

Stored(file_id, file_data) == [file_id |-> file_id, data |-> file_data]

\* FileManager(...).store_file(file_data, file_id)
FMStore(file_data, file_id, key) ==
    /\ smDisk' = FMStoreFile(smDisk, file_data, file_id, key, TRUE)
    /\ fmStored' = fmStored \cup {Stored(file_id, file_data)}
    /\ resp' = [op |-> "fm_store", file_id |-> file_id, data |-> Found(file_data)]
    /\ UNCHANGED <<smFiles, smResult, fsVars, storeVars, reqs, beyondFM>>

\* FileManager(...).retrieve_file(file_id)
FMRetrieve(file_id, key) ==
    /\ resp' = [op |-> "fm_retrieve", file_id |-> file_id,
                data |-> FMRetrieveFile(smDisk, file_id, key, TRUE)]
    /\ UNCHANGED <<smVars, fsVars, storeVars, reqs, extVars>>

\* FileManager(...).delete_file(file_id)
FMDelete(file_id) ==
    /\ smDisk' = FMDeleteFile(smDisk, file_id)
    /\ resp' = [op |-> "fm_delete", file_id |-> file_id, data |-> NotFound]
    /\ UNCHANGED <<smFiles, smResult, fsVars, storeVars, reqs, extVars>>

\* POST /files/upload of routes.py; `now` is datetime.utcnow().
RoutesUpload(user, file_path, file_data, key, now) ==
    LET file_event == Event(file_path, "create", "", Len(file_data), now, 0)
        disk == FMStoreFile(smDisk, file_data, EventId, key, TRUE)
        out == ProcessFileEvent(smFiles, disk, file_event, user)
    IN  /\ smFiles' = out.table
        /\ smDisk' = out.disk
        /\ smResult' = out.result
        /\ fmStored' = fmStored \cup {Stored(EventId, file_data)}
        /\ UNCHANGED <<resp, fsVars, storeVars, reqs, beyondFM>>

\* GET /files/download/{file_id} of routes.py
RoutesDownload(file_id, user, key) ==
    LET file_record == {r \in smFiles : r.id = file_id /\ r.owner_id = user}
        file_data == FMRetrieveFile(smDisk, file_id, key, TRUE)
    IN  /\ resp' = [op |-> "routes_download", file_id |-> file_id,
                    status |-> IF file_record = {} THEN 404
                               ELSE IF ~file_data.found \/ file_data.data = <<>> THEN 404
                               ELSE 200,
                    data |-> IF file_record = {} THEN NotFound ELSE file_data]
        /\ UNCHANGED <<smVars, fsVars, storeVars, reqs, extVars>>

(***************************************************************************)
(* StorageManager called from several threads: every call runs its file    *)
(* system operations one at a time, other threads running in between.      *)
(***************************************************************************)
Storers == {1, 2}
Readers == {3}

Idle == [op |-> "none", pc |-> "idle", hash |-> <<>>, data |-> <<>>, result |-> NotFound]

callRest == <<chunks, temp, putLog, fsVars, smVars, resp, reqs, fmStored, upload, beyondChunks>>

\* store_file_content(file_data, sha256(file_data)) is called.
CallStore(t, file_data) ==
    /\ stCalls[t].pc \in {"idle", "done"}
    /\ stCalls' = [stCalls EXCEPT ![t] = [op |-> "store", pc |-> "exists",
                                          hash |-> SHA256(file_data),
                                          data |-> file_data, result |-> NotFound]]
    /\ UNCHANGED <<content, callRest>>

\* line 56: if not storage_path.exists()
StoreExists(t) ==
    /\ stCalls[t].op = "store" /\ stCalls[t].pc = "exists"
    /\ stCalls' = [stCalls EXCEPT ![t].pc =
                      IF GetContentPath(stCalls[t].hash) \in DOMAIN content
                      THEN "done" ELSE "open"]
    /\ UNCHANGED <<content, callRest>>

\* line 57: open(storage_path, 'wb') creates the file or truncates it.
StoreOpen(t) ==
    /\ stCalls[t].op = "store" /\ stCalls[t].pc = "open"
    /\ content' = Write(content, GetContentPath(stCalls[t].hash), <<>>)
    /\ stCalls' = [stCalls EXCEPT ![t].pc = "write"]
    /\ UNCHANGED callRest

\* line 58 and the end of the with block: the bytes reach the file.
StoreWrite(t) ==
    /\ stCalls[t].op = "store" /\ stCalls[t].pc = "write"
    /\ content' = Write(content, GetContentPath(stCalls[t].hash), stCalls[t].data)
    /\ stCalls' = [stCalls EXCEPT ![t].pc = "done"]
    /\ UNCHANGED callRest

\* retrieve_file_content(content_hash) is called.
CallRetrieve(t, content_hash) ==
    /\ stCalls[t].pc \in {"idle", "done"}
    /\ stCalls' = [stCalls EXCEPT ![t] = [op |-> "retrieve", pc |-> "exists",
                                          hash |-> content_hash,
                                          data |-> <<>>, result |-> NotFound]]
    /\ UNCHANGED <<content, callRest>>

\* line 66: if storage_path.exists()
RetrieveExists(t) ==
    /\ stCalls[t].op = "retrieve" /\ stCalls[t].pc = "exists"
    /\ stCalls' = [stCalls EXCEPT ![t].pc =
                      IF GetContentPath(stCalls[t].hash) \in DOMAIN content
                      THEN "read" ELSE "done"]
    /\ UNCHANGED <<content, callRest>>

\* lines 67-68: open(storage_path, 'rb') and f.read()
RetrieveRead(t) ==
    /\ stCalls[t].op = "retrieve" /\ stCalls[t].pc = "read"
    /\ stCalls' = [stCalls EXCEPT ![t].pc = "done",
                                  ![t].result = RetrieveFileContent(content, stCalls[t].hash)]
    /\ UNCHANGED <<content, callRest>>

(***************************************************************************)
(* Chunked transfer: FileChunker (shared/utils.py) on the sending side,    *)
(* StorageManager.store_file_chunk / reconstruct_file_from_chunks on the   *)
(* receiving side.                                                         *)
(***************************************************************************)
\* FileChunker.chunk_size, in bytes.
ChunkSize == 2

RECURSIVE BytesOfLen(_)
BytesOfLen(n) ==
    IF n = 0 THEN {<<>>}
    ELSE {Append(b, x) : b \in BytesOfLen(n - 1), x \in {0, 1}}

\* The files sent in chunks: at most MaxChunks chunks, the last one may be short.
ChunkFiles == UNION {BytesOfLen(n) : n \in 0..(ChunkSize * MaxChunks)}

Min(a, b) == IF a < b THEN a ELSE b

\* FileChunker.chunk_file: the list of chunk infos of a file.
ChunkFile(file_data, chunk_size) ==
    LET file_size == Len(file_data)
        total_chunks == (file_size + chunk_size - 1) \div chunk_size
    IN  [n \in 1..total_chunks |->
            LET chunk_data == SubSeq(file_data, (n - 1) * chunk_size + 1,
                                     Min(n * chunk_size, file_size))
            IN  [chunk_number |-> n - 1, total_chunks |-> total_chunks,
                 data |-> chunk_data, checksum |-> SHA256(chunk_data),
                 size |-> Len(chunk_data)]]

\* sorted(chunks, key=lambda x: x['chunk_number']): a stable sort.
RECURSIVE SortedChunks(_)
SortedChunks(cs) ==
    IF cs = <<>> THEN <<>>
    ELSE LET i == CHOOSE j \in DOMAIN cs :
                     /\ \A k \in DOMAIN cs : cs[j].chunk_number <= cs[k].chunk_number
                     /\ \A k \in 1..(j - 1) : cs[k].chunk_number # cs[j].chunk_number
         IN  <<cs[i]>> \o SortedChunks(SubSeq(cs, 1, i - 1) \o SubSeq(cs, i + 1, Len(cs)))

RECURSIVE ConcatData(_)
ConcatData(cs) == IF cs = <<>> THEN <<>> ELSE cs[1].data \o ConcatData(Tail(cs))

\* Mutant: the chunks are written in the order of the list.
ReconstructFile_Unsorted(cs) == [ok |-> TRUE, output |-> Found(ConcatData(cs))]

\* FileChunker.reconstruct_file(chunks, output_path): the value returned
\* and the output file left.
ReconstructFile(cs) == [ok |-> TRUE, output |-> Found(ConcatData(SortedChunks(cs)))]

\* StorageManager.reconstruct_file_from_chunks(upload_id, total_chunks):
\* the bytes returned, NotFound for the FileNotFoundError raised.
RECURSIVE ReconstructFrom(_, _, _, _)
ReconstructFrom(dir, upload_id, i, total_chunks) ==
    IF i >= total_chunks THEN Found(<<>>)
    ELSE IF <<upload_id, i>> \in DOMAIN dir
         THEN LET rest == ReconstructFrom(dir, upload_id, i + 1, total_chunks)
              IN  IF rest.found THEN Found(dir[<<upload_id, i>>] \o rest.data)
                  ELSE NotFound
         ELSE NotFound

ReconstructFileFromChunks(dir, upload_id, total_chunks) ==
    ReconstructFrom(dir, upload_id, 0, total_chunks)

NoUpload == [begun |-> FALSE, upload_id |-> "", file |-> <<>>, total |-> 0,
             pending |-> {}, arrived |-> <<>>]

chunkRest == <<content, putLog, fsVars, smVars, reqs, fmStored, stCalls, beyondChunks>>

\* A sender chunks a file and opens an upload.
BeginUpload(upload_id, file_data) ==
    /\ ~upload.begun
    /\ LET cs == ChunkFile(file_data, ChunkSize)
       IN  upload' = [begun |-> TRUE, upload_id |-> upload_id, file |-> file_data,
                      total |-> Len(cs), pending |-> {cs[n] : n \in DOMAIN cs},
                      arrived |-> <<>>]
    /\ UNCHANGED <<chunks, temp, resp, chunkRest>>

\* One chunk arrives, in any order: store_file_chunk and the receiver's list.
DeliverChunk(c) ==
    /\ c \in upload.pending
    /\ chunks' = StoreChunkBlob(chunks, c.data)
    /\ temp' = StoreTempChunk(temp, upload.upload_id, c.chunk_number, c.data)
    /\ upload' = [upload EXCEPT !.pending = @ \ {c}, !.arrived = Append(@, c)]
    /\ UNCHANGED <<resp, chunkRest>>

\* reconstruct_file_from_chunks(upload_id, total_chunks)
ServerReconstruct ==
    /\ upload.begun
    /\ resp' = [op |-> "reconstruct", ok |-> TRUE,
                data |-> ReconstructFileFromChunks(temp, upload.upload_id, upload.total)]
    /\ UNCHANGED <<chunks, temp, upload, chunkRest>>

\* FileChunker.reconstruct_file(the chunks received, output_path)
ChunkerReconstruct ==
    /\ upload.begun
    /\ LET r == ReconstructFile(upload.arrived)
       IN  resp' = [op |-> "reconstruct_file", ok |-> r.ok, data |-> r.output]
    /\ UNCHANGED <<chunks, temp, upload, chunkRest>>

(***************************************************************************)
(* The client: LocalFileState and FileWatcherHandler (client/file_watcher) *)
(***************************************************************************)
EventTypes == {"create", "modify", "delete"}
\* time.time(), the wall clock: two calls may read the same value, and the
\* clock may be set back between two calls.
ClockValues == {1, 2}
\* calculate_file_info: None (the file is gone or unreadable) or the
\* checksum, size and mtime of the file.
NoInfo == [found |-> FALSE, checksum |-> "", file_size |-> 0, modified_time |-> 0]
FileInfos ==
    {[found |-> TRUE, checksum |-> "h1", file_size |-> 1, modified_time |-> 1],
     [found |-> TRUE, checksum |-> "h1", file_size |-> 1, modified_time |-> 2],
     [found |-> TRUE, checksum |-> "h2", file_size |-> 2, modified_time |-> 2]}

\* LocalFileState.update_file_state: INSERT OR REPLACE, the columns not
\* listed take their defaults.
UpdateFileState(table, file_path, checksum, file_size, modified_time) ==
    Write(table, file_path,
          [checksum |-> checksum, file_size |-> file_size,
           modified_time |-> modified_time, sync_status |-> "pending"])

\* LocalFileState.get_file_state
GetFileState(table, file_path) ==
    IF file_path \in DOMAIN table THEN {table[file_path]} ELSE {}

\* LocalFileState.add_to_sync_queue; `now` is time.time().
AddToSyncQueue(queue, file_path, event_type, now) ==
    Append(queue, [id |-> Len(queue) + 1, file_path |-> file_path,
                   event_type |-> event_type, timestamp |-> now,
                   status |-> "pending"])

Pending(queue) == {i \in DOMAIN queue : queue[i].status = "pending"}

Listed(row) == [id |-> row.id, file_path |-> row.file_path,
                event_type |-> row.event_type, timestamp |-> row.timestamp]

\* LocalFileState.get_pending_sync_events: the lists the query may return.
\* ORDER BY timestamp fixes the order of rows of different timestamps only.
GetPendingSyncEvents(queue) ==
    {l \in [1..Cardinality(Pending(queue)) -> {Listed(queue[i]) : i \in Pending(queue)}] :
        /\ \A i, j \in DOMAIN l : i # j => l[i] # l[j]
        /\ \A i, j \in DOMAIN l : i < j => l[i].timestamp <= l[j].timestamp}

\* Mutant: the UPDATE has no WHERE clause.
MarkSyncEventCompleted_All(queue, event_id) ==
    [i \in DOMAIN queue |-> [queue[i] EXCEPT !.status = "completed"]]

\* LocalFileState.mark_sync_event_completed
MarkSyncEventCompleted(queue, event_id) ==
    [i \in DOMAIN queue |->
        IF queue[i].id = event_id THEN [queue[i] EXCEPT !.status = "completed"]
        ELSE queue[i]]

\* Mutant: every create/modify notification counts as a change.
FileChanged_Always(current_state, file_info) == TRUE

\* process_file_event, lines 220-222: is the file new or changed?
FileChanged(current_state, file_info) ==
    \/ current_state = {}
    \/ \E st \in current_state :
          \/ st.checksum # file_info.checksum
          \/ st.file_size # file_info.file_size

watcherBase == <<fsVars, storeVars, smVars, resp, reqs, fmStored, stCalls, upload>>
watcherRest == <<watcherBase, inflightVars>>

\* process_file_event, lines 208-233, on the tables `state` and `queue`:
\* the tables afterwards and whether the callback was called.
ProcessEvent(state, queue, event_type, file_path, file_info, now) ==
    IF event_type = "delete"
    THEN [fileState |-> state,
          syncQueue |-> AddToSyncQueue(queue, file_path, event_type, now),
          called |-> TRUE]
    ELSE IF file_info.found /\ FileChanged(GetFileState(state, file_path), file_info)
    THEN [fileState |-> UpdateFileState(state, file_path, file_info.checksum,
                                        file_info.file_size, file_info.modified_time),
          syncQueue |-> AddToSyncQueue(queue, file_path, event_type, now),
          called |-> TRUE]
    ELSE [fileState |-> state, syncQueue |-> queue, called |-> FALSE]

\* FileWatcherHandler.process_file_event(event_type, file_path) for a path
\* that is not ignored; file_info is what calculate_file_info finds.
Notify(event_type, file_path, file_info, now) ==
    /\ Len(syncQueue) < MaxQueue
    /\ cliLast' = [op |-> "notify", event_type |-> event_type,
                   file_path |-> file_path, info |-> file_info]
    /\ LET done == ProcessEvent(fileState, syncQueue, event_type, file_path, file_info, now)
       IN  /\ fileState' = done.fileState
           /\ syncQueue' = done.syncQueue
           /\ callbacks' = IF done.called THEN callbacks + 1 ELSE callbacks
    /\ UNCHANGED <<watcherRest, syncVars>>

\* FileWatcherHandler.on_moved for a file moved from src_path to dest_path
\* inside the folder: file_info is the moved file, now1 and now2 are
\* time.time() at the two add_to_sync_queue calls.
OnMoved(src_path, dest_path, file_info, now1, now2) ==
    LET first == ProcessEvent(fileState, syncQueue, "delete", src_path, NoInfo, now1)
        second == ProcessEvent(first.fileState, first.syncQueue, "create", dest_path,
                               file_info, now2)
        delivered == <<[event_type |-> "delete", file_path |-> src_path]>> \o
                     (IF second.called
                      THEN <<[event_type |-> "create", file_path |-> dest_path]>>
                      ELSE <<>>)
    IN  /\ src_path # dest_path
        /\ file_info.found
        /\ Len(second.syncQueue) <= MaxQueue
        /\ fileState' = second.fileState
        /\ syncQueue' = second.syncQueue
        /\ callbacks' = callbacks + Len(delivered)
        /\ cliLast' = [op |-> "moved", src_path |-> src_path, dest_path |-> dest_path,
                       first_new |-> Len(syncQueue) + 1, delivered |-> delivered]
        /\ UNCHANGED <<watcherRest, syncVars>>

\* The threads that deliver file system events to the handler.
WatcherThreads == {"w1", "w2"}
NoKey == <<>>
Waiting == [pc |-> "idle", key |-> NoKey]
\* Where the body of process_file_event raises: nowhere, before its first
\* write, or between update_file_state and add_to_sync_queue.
RaisePoints == {"none", "before", "between"}

InBody(t) == wThreads[t].pc \in {"body", "changed", "finally"}

\* Mutant: the in-flight set is not consulted.
InFlight_Never(keys, event_key) == FALSE

\* line 204: event_key in self._processing_events
InFlight(keys, event_key) == event_key \in keys

\* process_file_event, lines 201-206, run by thread t under the lock: the
\* notification is dropped, or its key is added to the in-flight set.
Arrive(t, event_type, file_path) ==
    /\ wThreads[t].pc = "idle"
    /\ LET event_key == <<event_type, file_path>>
       IN  IF InFlight(processing, event_key)
           THEN /\ cliLast' = [op |-> "dropped", event_key |-> event_key, thread |-> t]
                /\ UNCHANGED <<processing, wThreads>>
           ELSE /\ Len(syncQueue) + Cardinality({w \in WatcherThreads : InBody(w)})
                       < MaxQueue
                /\ processing' = processing \cup {event_key}
                /\ wThreads' = [wThreads EXCEPT ![t] = [pc |-> "body", key |-> event_key]]
                /\ UNCHANGED cliLast
    /\ UNCHANGED <<fileState, syncQueue, callbacks, watcherBase, syncVars>>

\* process_file_event, lines 208-233, run by thread t: the body, up to the
\* point where it raises.
Body(t, file_info, now, raises) ==
    /\ wThreads[t].pc = "body"
    /\ LET event_type == wThreads[t].key[1]
           file_path == wThreads[t].key[2]
           done == ProcessEvent(fileState, syncQueue, event_type, file_path, file_info, now)
       IN  /\ fileState' = IF raises = "before" THEN fileState ELSE done.fileState
           /\ syncQueue' = IF raises = "none" THEN done.syncQueue ELSE syncQueue
           /\ callbacks' = IF raises = "none" /\ done.called THEN callbacks + 1
                           ELSE callbacks
           /\ cliLast' = [op |-> "body", event_key |-> wThreads[t].key, thread |-> t,
                          raises |-> raises]
    /\ wThreads' = [wThreads EXCEPT ![t].pc = "finally"]
    /\ UNCHANGED <<processing, watcherBase, syncVars>>

\* process_file_event, lines 234-236: finally, the key is discarded under
\* the lock.
Release(t) ==
    /\ wThreads[t].pc = "finally"
    /\ processing' = processing \ {wThreads[t].key}
    /\ wThreads' = [wThreads EXCEPT ![t] = Waiting]
    /\ UNCHANGED <<fileState, syncQueue, callbacks, cliLast, watcherBase, syncVars>>

\* on_created / on_modified for the file that download_file wrote at
\* file_path: the observer reports the write like any other, and file_info
\* is the file now in the folder.
WatcherSeesDownload(event_type, file_path, file_info, now) ==
    /\ event_type \in {"create", "modify"}
    /\ file_info.found
    /\ file_info.checksum = folder[file_path]
    /\ Notify(event_type, file_path, file_info, now)

\* FileWatcher.get_pending_sync_events()
ListPending ==
    /\ \E l \in GetPendingSyncEvents(syncQueue) :
          cliLast' = [op |-> "pending", listing |-> l]
    /\ UNCHANGED <<fileState, syncQueue, callbacks, watcherRest, syncVars>>

\* FileWatcher.mark_event_synced(event_id)
MarkEventSynced(event_id) ==
    /\ syncQueue' = MarkSyncEventCompleted(syncQueue, event_id)
    /\ cliLast' = [op |-> "ack", event_id |-> event_id,
                   was_pending |-> event_id \in Pending(syncQueue)]
    /\ UNCHANGED <<fileState, callbacks, watcherRest, syncVars>>

(***************************************************************************)
(* SyncClient (client/sync_client.py): the sync cycle                      *)
(***************************************************************************)
\* The thread of _sync_loop and the threads trigger_sync spawns.
LoopThread == "loop"
TriggerThreads == {"t1", "t2"}
SyncThreadNames == {LoopThread} \cup TriggerThreads

\* _sync_loop, line 362: the timer thread calls sync_once.
LoopCallsSyncOnce ==
    /\ ~stopSync
    /\ syncThreads[LoopThread] = "idle"
    /\ syncThreads' = [syncThreads EXCEPT ![LoopThread] = "check"]
    /\ UNCHANGED <<syncInProgress, stopVars, uploadHist, pullVars, watcherVars, watcherRest>>

\* trigger_sync: a thread running sync_once is started unless the flag is set.
TriggerSync(t) ==
    /\ syncThreads[t] = "idle"
    /\ syncThreads' = IF ~syncInProgress
                      THEN [syncThreads EXCEPT ![t] = "check"]
                      ELSE syncThreads
    /\ UNCHANGED <<syncInProgress, stopVars, uploadHist, pullVars, watcherVars, watcherRest>>

\* sync_once, lines 263-264: if self.sync_in_progress: return
SyncCheck(t) ==
    /\ syncThreads[t] = "check"
    /\ syncThreads' = [syncThreads EXCEPT ![t] = IF syncInProgress THEN "idle" ELSE "set"]
    /\ UNCHANGED <<syncInProgress, stopVars, uploadHist, pullVars, watcherVars, watcherRest>>

\* line 266: self.sync_in_progress = True
SyncSet(t) ==
    /\ syncThreads[t] = "set"
    /\ syncInProgress' = TRUE
    /\ syncThreads' = [syncThreads EXCEPT ![t] = "upload"]
    /\ UNCHANGED <<stopVars, uploadHist, pullVars, watcherVars, watcherRest>>

\* lines 271-277: the phases of the cycle, one after the other; a phase
\* that raises leads to the finally block as well.
SyncPhase(t) ==
    /\ syncThreads[t] \in {"upload", "download", "heartbeat"}
    /\ \E next \in {"finally"} \cup
                   (CASE syncThreads[t] = "upload" -> {"download"}
                      [] syncThreads[t] = "download" -> {"heartbeat"}
                      [] OTHER -> {}) :
          syncThreads' = [syncThreads EXCEPT ![t] = next]
    /\ UNCHANGED <<syncInProgress, stopVars, uploadHist, pullVars, watcherVars, watcherRest>>

\* line 284: finally: self.sync_in_progress = False
SyncFinally(t) ==
    /\ syncThreads[t] = "finally"
    /\ syncInProgress' = FALSE
    /\ syncThreads' = [syncThreads EXCEPT ![t] = "idle"]
    /\ UNCHANGED <<stopVars, uploadHist, pullVars, watcherVars, watcherRest>>

\* stop_sync_loop, line 353: self.stop_sync.set(); the caller then waits in
\* join for the thread of _sync_loop.
StopSyncLoop ==
    /\ stopper = "none"
    /\ stopSync' = TRUE
    /\ stopper' = "joining"
    /\ UNCHANGED <<syncInProgress, syncThreads, uploadHist, pullVars, watcherVars, watcherRest>>

\* stop_sync_loop, line 355, and the rest of stop(): the thread of
\* _sync_loop has left sync_once and its loop, join returns, stop() returns.
StopReturns ==
    /\ stopper = "joining"
    /\ syncThreads[LoopThread] = "idle"
    /\ stopper' = "stopped"
    /\ UNCHANGED <<stopSync, syncInProgress, syncThreads, uploadHist, pullVars, watcherVars, watcherRest>>

\* ClientConfig.max_retries
MaxRetries == 3

\* upload_file: the request was answered 200, answered otherwise, or not
\* made (the file is gone, the connection failed).
UploadOutcomes == {"accepted", "rejected", "not_sent"}

\* upload_local_changes, lines 295-301: success of one pending event.
UploadSuccess(event, outcome) ==
    IF event.event_type \in {"create", "modify"}
    THEN outcome = "accepted"
    ELSE TRUE       \* delete: "Simplified for now", nothing is sent

\* Was the event sent to the server and accepted?
ServerAccepted(event, outcome) ==
    event.event_type \in {"create", "modify"} /\ outcome = "accepted"

\* upload_local_changes, lines 290-307: the loop over the pending events;
\* outcome[i] is what upload_file meets for event i. The count of attempts
\* stops at MaxRetries + 1.
UploadPass(outcome) ==
    /\ attempts' = [i \in DOMAIN attempts |->
                       IF i \in Pending(syncQueue)
                          /\ syncQueue[i].event_type \in {"create", "modify"}
                          /\ attempts[i] <= MaxRetries
                       THEN attempts[i] + 1 ELSE attempts[i]]
    /\ syncQueue' = [i \in DOMAIN syncQueue |->
                        IF i \in Pending(syncQueue) /\ UploadSuccess(syncQueue[i], outcome[i])
                        THEN [syncQueue[i] EXCEPT !.status = "completed"]
                        ELSE syncQueue[i]]
    /\ accepted' = accepted \cup {i \in Pending(syncQueue) :
                                     ServerAccepted(syncQueue[i], outcome[i])}
    /\ cliLast' = [op |-> "upload_local_changes", listed |-> Pending(syncQueue)]

\* SyncClient.upload_local_changes: one pass over the pending events.
UploadLocalChanges(outcome) ==
    /\ Pending(syncQueue) # {}
    /\ UploadPass(outcome)
    /\ UNCHANGED <<fileState, callbacks, syncInProgress, syncThreads, stopVars, pullVars, watcherRest>>

(***************************************************************************)
(* SyncClient.download_remote_changes (client/sync_client.py)              *)
(***************************************************************************)
Checksums == {"h1", "h2"}
\* os.path.exists(full_path) is False
Absent == "absent"
\* One entry of changes['files'], the FileInfo rows of GET /sync/changes.
ChangeRecords == [file_path : Paths, checksum : Checksums, is_deleted : BOOLEAN]
MaxBatch == 2
Batches == UNION {[1..n -> ChangeRecords] : n \in 0..MaxBatch}
\* download_file: the request fails or is answered otherwise than 200, or the
\* body of the response (named by its checksum) is written to the file.
DownloadOutcomes == {"failed"} \cup Checksums

\* Mutant: the local checksum is not compared.
ShouldDownload_Always(local, file_info) == TRUE

\* lines 325-333: should_download
ShouldDownload(local, file_info) ==
    ~(local # Absent /\ local = file_info.checksum)

\* lines 335-339: one record of the batch, applied to the file at its path.
ApplyChange(local, file_info, outcome) ==
    IF ShouldDownload(local, file_info) /\ ~file_info.is_deleted
    THEN [requested |-> TRUE,
          after |-> IF outcome = "failed" THEN local ELSE outcome]
    ELSE IF file_info.is_deleted /\ local # Absent
    THEN [requested |-> FALSE, after |-> Absent]
    ELSE [requested |-> FALSE, after |-> local]

\* Mutant: the loop over changes['files'] ends at the first record whose
\* download fails.
RECURSIVE ApplyChanges_StopOnFailure(_, _, _, _, _)
ApplyChanges_StopOnFailure(dir, log, batch, outcome, i) ==
    IF i > Len(batch) THEN [folder |-> dir, log |-> log]
    ELSE LET file_info == batch[i]
             local == dir[file_info.file_path]
             done == ApplyChange(local, file_info, outcome[i])
             entry == [file_info |-> file_info, before |-> local,
                       outcome |-> IF done.requested THEN outcome[i] ELSE "unused",
                       requested |-> done.requested, after |-> done.after]
         IN  IF done.requested /\ outcome[i] = "failed"
             THEN [folder |-> dir, log |-> Append(log, entry)]
             ELSE ApplyChanges_StopOnFailure(
                      [dir EXCEPT ![file_info.file_path] = done.after],
                      Append(log, entry), batch, outcome, i + 1)

\* lines 319-342: the loop over changes['files'], from record i on.
RECURSIVE ApplyChanges(_, _, _, _, _)
ApplyChanges(dir, log, batch, outcome, i) ==
    IF i > Len(batch) THEN [folder |-> dir, log |-> log]
    ELSE LET file_info == batch[i]
             local == dir[file_info.file_path]
             done == ApplyChange(local, file_info, outcome[i])
         IN  ApplyChanges([dir EXCEPT ![file_info.file_path] = done.after],
                          Append(log, [file_info |-> file_info, before |-> local,
                                       outcome |-> IF done.requested THEN outcome[i]
                                                   ELSE "unused",
                                       requested |-> done.requested,
                                       after |-> done.after]),
                          batch, outcome, i + 1)

\* download_remote_changes, lines 312-342: `got` is whether
\* get_server_changes returned the changes (it returns None on any failure).
DownloadPass(got, batch, outcome) ==
    LET done == IF got THEN ApplyChanges(folder, <<>>, batch, outcome, 1)
                ELSE [folder |-> folder, log |-> <<>>]
    IN  /\ folder' = done.folder
        /\ dlLog' = done.log
        /\ dlPulled' = IF got THEN Len(batch) ELSE 0

\* SyncClient.download_remote_changes
DownloadRemoteChanges(got, batch, outcome) ==
    /\ DownloadPass(got, batch, outcome)
    /\ UNCHANGED <<markVars, beyondPull, syncInProgress, syncThreads, stopVars, uploadHist, watcherVars, watcherRest>>

(***************************************************************************)
(* SyncClient.sync_once with its phases (client/sync_client.py)            *)
(***************************************************************************)
cycleRest == <<fileState, callbacks, stopVars, markVars, beyondPull, watcherRest>>

\* sync_once, line 271: upload_local_changes() in the cycle of thread t;
\* with `raised`, get_pending_sync_events raises and the cycle goes to its
\* except and finally blocks.
CycleUpload(t, outcome, raised) ==
    /\ syncThreads[t] = "upload"
    /\ IF raised
       THEN /\ syncThreads' = [syncThreads EXCEPT ![t] = "finally"]
            /\ UNCHANGED <<syncQueue, cliLast, uploadHist>>
       ELSE /\ UploadPass(outcome)
            /\ syncThreads' = [syncThreads EXCEPT ![t] = "download"]
    /\ UNCHANGED <<syncInProgress, folder, dlVars, cycleRest>>

\* sync_once, line 274: download_remote_changes() in the cycle of thread t.
CycleDownload(t, got, batch, outcome) ==
    /\ syncThreads[t] = "download"
    /\ DownloadPass(got, batch, outcome)
    /\ syncThreads' = [syncThreads EXCEPT ![t] = "heartbeat"]
    /\ UNCHANGED <<syncInProgress, syncQueue, cliLast, uploadHist, cycleRest>>

\* sync_once, line 277: send_heartbeat(), which catches its own errors.
CycleHeartbeat(t) ==
    /\ syncThreads[t] = "heartbeat"
    /\ syncThreads' = [syncThreads EXCEPT ![t] = "finally"]
    /\ UNCHANGED <<syncInProgress, syncQueue, cliLast, uploadHist, folder, dlVars, cycleRest>>

(***************************************************************************)
(* ClientSyncManager.periodic_sync (client/core/sync_manager.py)           *)
(***************************************************************************)
\* download_and_apply_file / delete_local_file: the file operation is done,
\* or it fails (status other than 200, an OSError) and the error is printed.
ApplyOutcomes == {"ok", "failed"}

\* handle_remote_file_event for one change of the batch: the file at its path
\* afterwards.
ApplyRemote(local, change, outcome) ==
    IF outcome = "failed" THEN local
    ELSE IF change.is_deleted THEN Absent
    ELSE change.checksum

\* lines 270-281: the first n changes of the batch applied in order.
RECURSIVE ApplyBatch(_, _, _, _)
ApplyBatch(dir, batch, outcome, n) ==
    IF n = 0 THEN dir
    ELSE LET before == ApplyBatch(dir, batch, outcome, n - 1)
             change == batch[n]
         IN  [before EXCEPT ![change.file_path] =
                 ApplyRemote(before[change.file_path], change, outcome[n])]

\* ClientSyncManager.periodic_sync at time `now`. The changes arrive (`got`)
\* or the request fails; `n` of them are handled, and with `finished` the loop
\* has ended and line 284 runs, otherwise the process stopped or a change
\* raised before that.
PeriodicPass(got, batch, outcome, n, finished, now) ==
    /\ finished => n = Len(batch)
    /\ ~got => n = 0 /\ ~finished
    /\ folder' = ApplyBatch(folder, batch, outcome, n)
    /\ lastSync' = IF finished THEN now ELSE lastSync
    /\ psLast' = [op |-> "periodic_sync", got |-> got, before |-> lastSync,
                  failed |-> {i \in 1..n : outcome[i] = "failed"},
                  finished |-> finished]
    /\ UNCHANGED <<dlVars, syncInProgress, syncThreads, stopVars, uploadHist, watcherVars, watcherRest>>

PeriodicSync(got, batch, outcome, n, finished, now) ==
    /\ PeriodicPass(got, batch, outcome, n, finished, now)
    /\ UNCHANGED beyondPull

\* routes.py get_changes: the `since` of the request, or thirty days before
\* the server's clock when the client has no mark yet (lastSync 0).
ThirtyDays == 2592000

ChangesTimestamp(since, now) == IF since # 0 THEN since ELSE now - ThirtyDays

\* periodic_sync lines 271-280: the event built from one row of the answer.
RemoteChange(row) ==
    [file_path |-> row.path, checksum |-> row.checksum, is_deleted |-> row.is_deleted]

\* The orders in which the query may return a set of rows (it has no
\* ORDER BY).
Orderings(rows) ==
    {q \in [1..Cardinality(rows) -> rows] : \A r \in rows : \E i \in DOMAIN q : q[i] = r}

\* periodic_sync against the server's table: GET /sync/changes with the
\* client's mark answers the rows of get_changes_since, in order `rows`; the
\* client handles them and sets the mark from its own clock.
PullChanges(user, got, rows, outcome, n, finished, now) ==
    /\ rows \in Orderings(GetChangesSince(smFiles, user, ChangesTimestamp(lastSync, now)))
    /\ PeriodicPass(got, [i \in DOMAIN rows |-> RemoteChange(rows[i])], outcome, n, finished, now)
    /\ pulled' = IF got THEN pulled \cup {rows[i] : i \in DOMAIN rows} ELSE pulled
    /\ UNCHANGED <<pubVars, isWatching>>

(***************************************************************************)
(* Change notifications: ConnectionManager of server/main.py and of        *)
(* server/api/websocket.py                                                 *)
(***************************************************************************)
Clients == {"c1", "c2", "c3"}

pubRest == <<folder, dlVars, markVars, pulled, isWatching, syncInProgress, syncThreads, stopVars, uploadHist,
             watcherVars, watcherRest>>

\* The WebSocket objects; NoSocket stands for a key that is not in a dict.
Sockets == {"s1", "s2", "s3"}
NoSocket == "none"

\* The keys of a dict of sockets.
Keys(conns) == {k \in DOMAIN conns : conns[k] # NoSocket}

\* main.py ConnectionManager.connect
Connect(websocket, client_id) ==
    /\ wsConns' = [wsConns EXCEPT ![client_id] = websocket]
    /\ UNCHANGED <<apiVars, wsLast, wsOpen, pubRest>>

\* main.py ConnectionManager.disconnect
Disconnect(client_id) ==
    /\ wsConns' = [wsConns EXCEPT ![client_id] = NoSocket]
    /\ UNCHANGED <<apiVars, wsLast, wsOpen, pubRest>>

\* main.py ConnectionManager.send_personal_message; `fails` is whether
\* send_text raises.
SendPersonalMessage(client_id, fails) ==
    /\ wsConns' = IF client_id \in Keys(wsConns) /\ fails
                  THEN [wsConns EXCEPT ![client_id] = NoSocket]
                  ELSE wsConns
    /\ wsLast' = [op |-> "send_personal_message", origin |-> "",
                  registered |-> Keys(wsConns), failing |-> IF fails THEN {client_id} ELSE {},
                  received |-> IF client_id \in Keys(wsConns) /\ ~fails THEN {client_id} ELSE {},
                  completed |-> TRUE]
    /\ UNCHANGED <<apiVars, wsOpen, pubRest>>

\* main.py ConnectionManager.broadcast: who is sent the message.
BroadcastTargets(connections, client_id) == connections

\* main.py upload_file, lines 255-261, for an upload of client_id: the
\* broadcast; send_text raises on the channels in `failing`.
Broadcast(client_id, failing) ==
    /\ wsLast' = [op |-> "broadcast", origin |-> client_id,
                  registered |-> Keys(wsConns), failing |-> failing \cap Keys(wsConns),
                  received |-> BroadcastTargets(Keys(wsConns), client_id) \ failing,
                  completed |-> TRUE]
    /\ UNCHANGED <<wsConns, apiVars, wsOpen, pubRest>>

\* list.remove: the first occurrence is taken out.
RECURSIVE ListRemove(_, _)
ListRemove(list, x) ==
    IF list = <<>> THEN <<>>
    ELSE IF Head(list) = x THEN Tail(list)
    ELSE <<Head(list)>> \o ListRemove(Tail(list), x)

InList(list, x) == \E i \in DOMAIN list : list[i] = x

\* websocket.py ConnectionManager.connect: the socket is appended to the
\* list and assigned in the dict; a dict keeps the position of a key that is
\* assigned again.
WSConnect(websocket, user_id) ==
    /\ wsActive' = Append(wsActive, websocket)
    /\ wsUsers' = IF InList(wsUsers, user_id) THEN wsUsers ELSE Append(wsUsers, user_id)
    /\ wsUserSocket' = [wsUserSocket EXCEPT ![user_id] = websocket]
    /\ UNCHANGED <<wsConns, wsLast, wsOpen, pubRest>>

\* websocket.py ConnectionManager.disconnect: list.remove raises ValueError
\* for a socket that is not in the list, and the dict is then left alone.
WSDisconnect(websocket, user_id) ==
    /\ IF InList(wsActive, websocket)
       THEN /\ wsActive' = ListRemove(wsActive, websocket)
            /\ wsUsers' = SelectSeq(wsUsers, LAMBDA u : u # user_id)
            /\ wsUserSocket' = [wsUserSocket EXCEPT ![user_id] = NoSocket]
       ELSE UNCHANGED apiVars
    /\ UNCHANGED <<wsConns, wsLast, wsOpen, pubRest>>

\* websocket.py broadcast_file_event, lines 40-42: the users reached, in
\* dict order, until a send_text raises.
RECURSIVE SendInOrder(_, _, _, _)
SendInOrder(users, exclude_user, failing, i) ==
    IF i > Len(users) THEN [received |-> {}, completed |-> TRUE]
    ELSE IF users[i] = exclude_user THEN SendInOrder(users, exclude_user, failing, i + 1)
    ELSE IF users[i] \in failing THEN [received |-> {}, completed |-> FALSE]
    ELSE LET rest == SendInOrder(users, exclude_user, failing, i + 1)
         IN  [received |-> {users[i]} \cup rest.received, completed |-> rest.completed]

\* websocket_endpoint, lines 56-59: a file_event of a connected user is
\* published with exclude_user = that user.
BroadcastFileEvent(user_id, failing) ==
    /\ \E i \in DOMAIN wsUsers : wsUsers[i] = user_id
    /\ LET sent_to == SendInOrder(wsUsers, user_id, failing, 1)
           reg == {wsUsers[i] : i \in DOMAIN wsUsers}
       IN  wsLast' = [op |-> "broadcast_file_event", origin |-> user_id,
                      registered |-> reg, failing |-> failing \cap (reg \ {user_id}),
                      received |-> sent_to.received, completed |-> sent_to.completed]
    /\ UNCHANGED <<wsConns, apiVars, wsOpen, pubRest>>

Init ==
    /\ files = <<>>
    /\ versions = <<>>
    /\ content = <<>>
    /\ chunks = <<>>
    /\ temp = <<>>
    /\ resp = [op |-> "none"]
    /\ sent = <<>>
    /\ putLog = <<>>
    /\ smFiles = {}
    /\ smDisk = <<>>
    /\ smResult = NoResult
    /\ reqs = <<>>
    /\ fmStored = {}
    /\ stCalls = [t \in Storers \cup Readers |-> Idle]
    /\ upload = NoUpload
    /\ fileState = <<>>
    /\ syncQueue = <<>>
    /\ callbacks = 0
    /\ cliLast = [op |-> "none"]
    /\ syncInProgress = FALSE
    /\ syncThreads = [t \in SyncThreadNames |-> "idle"]
    /\ accepted = {}
    /\ attempts = [i \in 1..MaxQueue |-> 0]
    /\ folder = [p \in Paths |-> Absent]
    /\ dlLog = <<>>
    /\ dlPulled = 0
    /\ lastSync = 0
    /\ psLast = [op |-> "none"]
    /\ stopSync = FALSE
    /\ stopper = "none"
    /\ processing = {}
    /\ wThreads = [t \in WatcherThreads |-> Waiting]
    /\ wsConns = [c \in Clients |-> NoSocket]
    /\ wsUsers = <<>>
    /\ wsUserSocket = [u \in Users |-> NoSocket]
    /\ wsActive = <<>>
    /\ wsOpen = <<>>
    /\ wsLast = [op |-> "none"]
    /\ pulled = {}
    /\ isWatching = FALSE

vars == <<files, versions, content, chunks, temp, resp, sent, putLog,
          smFiles, smDisk, smResult, reqs, extVars>>

NextFS ==
    \/ \E u \in Users, p \in Paths, b \in ByteSeqs, s \in Salts : UploadFile(u, p, b, s)
    \/ \E i \in 1..MaxFiles, u \in Users : DownloadFile(i, u)
    \/ \E i \in 1..MaxFiles, u \in Users : DeleteFile(i, u)

SpecFS == Init /\ [][NextFS]_vars

NextStore ==
    \/ \E b \in ByteSeqs : Put(b)
    \/ \E h \in Hashes : Retrieve(h)
    \/ \E h \in Hashes : DeleteContent(h)
    \/ \E u \in UploadIds, n \in ChunkNumbers, b \in ChunkData : StoreFileChunk(u, n, b)

SpecStore == Init /\ [][NextStore]_vars

NextStoreRaw ==
    \/ NextStore
    \/ \E b \in ByteSeqs, h \in Hashes : StoreRaw(b, h)

SpecStoreRaw == Init /\ [][NextStoreRaw]_vars

NextSM == \E r \in SMRequests : SyncEvent(r[1], r[2])

SpecSM == Init /\ [][NextSM]_vars

NextSMC ==
    \/ \E e \in SMCEvents : BeginRequest(e, "u1")
    \/ \E k \in 1..MaxRequests : FinishRequest(k)

SpecSMC == Init /\ [][NextSMC]_vars

NextStoreCalls ==
    \/ \E t \in Storers, b \in ByteSeqs : CallStore(t, b)
    \/ \E t \in Storers : StoreExists(t) \/ StoreOpen(t) \/ StoreWrite(t)
    \/ \E t \in Readers, h \in Hashes : CallRetrieve(t, h)
    \/ \E t \in Readers : RetrieveExists(t) \/ RetrieveRead(t)

SpecStoreCalls == Init /\ [][NextStoreCalls]_vars

NextChunks ==
    \/ \E u \in UploadIds, f \in ChunkFiles : BeginUpload(u, f)
    \/ \E c \in upload.pending : DeliverChunk(c)
    \/ ServerReconstruct
    \/ ChunkerReconstruct

SpecChunks == Init /\ [][NextChunks]_vars

NextWatcher ==
    \/ \E k \in EventTypes, p \in Paths, f \in FileInfos \cup {NoInfo}, t \in ClockValues :
          Notify(k, p, f, t)
    \/ ListPending
    \/ \E i \in 1..(MaxQueue + 1) : MarkEventSynced(i)

SpecWatcher == Init /\ [][NextWatcher]_vars

NextSyncCycle ==
    \/ LoopCallsSyncOnce
    \/ \E t \in TriggerThreads : TriggerSync(t)
    \/ \E t \in SyncThreadNames : SyncCheck(t) \/ SyncSet(t) \/ SyncPhase(t) \/ SyncFinally(t)

SpecSyncCycle == Init /\ [][NextSyncCycle]_vars

NextShutdown ==
    \/ NextSyncCycle
    \/ StopSyncLoop
    \/ StopReturns

SpecShutdown == Init /\ [][NextShutdown]_vars

\* The timer thread running whole cycles while the watcher queues events.
CycleRecords == {r \in ChangeRecords : r.file_path = "a" /\ r.checksum = "h1" /\ ~r.is_deleted}
CycleInfo == [found |-> TRUE, checksum |-> "h1", file_size |-> 1, modified_time |-> 1]

LoopUploads ==
    \E o \in [1..MaxQueue -> {"accepted", "rejected"}], raised \in BOOLEAN :
        CycleUpload(LoopThread, o, raised)

LoopDownloads ==
    \E got \in BOOLEAN, batch \in Batches :
        /\ \A i \in DOMAIN batch : batch[i] \in CycleRecords
        /\ \E o \in [DOMAIN batch -> DownloadOutcomes] :
               CycleDownload(LoopThread, got, batch, o)

NextCycle ==
    \/ \E k \in {"create", "delete"} : Notify(k, "a", CycleInfo, 1)
    \/ LoopCallsSyncOnce
    \/ SyncCheck(LoopThread)
    \/ SyncSet(LoopThread)
    \/ LoopUploads
    \/ LoopDownloads
    \/ CycleHeartbeat(LoopThread)
    \/ SyncFinally(LoopThread)

\* The timer thread is scheduled: its sleep ends, and a step of sync_once
\* that can be taken is taken.
SpecCycle ==
    /\ Init /\ [][NextCycle]_vars
    /\ WF_vars(LoopCallsSyncOnce)
    /\ WF_vars(SyncCheck(LoopThread))
    /\ WF_vars(SyncSet(LoopThread))
    /\ WF_vars(LoopUploads)
    /\ WF_vars(LoopDownloads)
    /\ WF_vars(CycleHeartbeat(LoopThread))
    /\ WF_vars(SyncFinally(LoopThread))

NextMove ==
    \/ \E k \in EventTypes, p \in Paths, f \in FileInfos \cup {NoInfo}, t \in ClockValues :
          Notify(k, p, f, t)
    \/ \E src, dest \in Paths, f \in FileInfos, t1, t2 \in ClockValues :
          OnMoved(src, dest, f, t1, t2)
    \/ \E i \in 1..MaxQueue : MarkEventSynced(i)

SpecMove == Init /\ [][NextMove]_vars

\* process_file_event, lines 215-222, run by thread t outside the lock: the
\* file is read and compared with its file_state row.
CheckState(t, file_info) ==
    /\ wThreads[t].pc = "body"
    /\ wThreads[t].key[1] \in {"create", "modify"}
    /\ wThreads' = [wThreads EXCEPT ![t].pc =
                        IF file_info.found
                           /\ FileChanged(GetFileState(fileState, wThreads[t].key[2]), file_info)
                        THEN "changed" ELSE "finally"]
    /\ UNCHANGED <<fileState, syncQueue, callbacks, cliLast, processing, watcherBase, syncVars>>

\* process_file_event, lines 224-233, run by thread t that found the file
\* changed: the row is written, the event queued, the callback called.
WriteState(t, file_info, now) ==
    /\ wThreads[t].pc = "changed"
    /\ fileState' = UpdateFileState(fileState, wThreads[t].key[2], file_info.checksum,
                                    file_info.file_size, file_info.modified_time)
    /\ syncQueue' = AddToSyncQueue(syncQueue, wThreads[t].key[2], wThreads[t].key[1], now)
    /\ callbacks' = callbacks + 1
    /\ cliLast' = [op |-> "body", event_key |-> wThreads[t].key, thread |-> t,
                   raises |-> "none"]
    /\ wThreads' = [wThreads EXCEPT ![t].pc = "finally"]
    /\ UNCHANGED <<processing, watcherBase, syncVars>>

NextInFlight ==
    \/ \E t \in WatcherThreads, k \in EventTypes, p \in Paths : Arrive(t, k, p)
    \/ \E t \in WatcherThreads, f \in {CycleInfo, NoInfo}, r \in RaisePoints :
          Body(t, f, 1, r)
    \/ \E t \in WatcherThreads : Release(t)

SpecInFlight == Init /\ [][NextInFlight]_vars

\* A client whose folder is written by the download phase only.
scanRest == <<syncInProgress, syncThreads, stopVars, uploadHist, dlVars, markVars, pubVars, pulled,
              watcherRest>>

\* FileWatcher.scan_folder: every file found in the sync folder is recorded
\* in file_state with the checksum, size and mtime read from it (`info`).
RECURSIVE ScanPaths(_, _, _)
ScanPaths(state, info, todo) ==
    IF todo = {} THEN state
    ELSE LET file_path == CHOOSE x \in todo : TRUE
         IN  ScanPaths(UpdateFileState(state, file_path, info[file_path].checksum,
                                       info[file_path].file_size,
                                       info[file_path].modified_time),
                       info, todo \ {file_path})

ScanFolder(state, dir, info) == ScanPaths(state, info, {p \in Paths : dir[p] # Absent})

\* calculate_file_info of the files of the folder: what each holds, with
\* some mtime.
FolderInfos(dir) ==
    {info \in [Paths -> FileInfos \cup {NoInfo}] :
        \A p \in Paths : IF dir[p] = Absent THEN info[p] = NoInfo
                          ELSE info[p].found /\ info[p].checksum = dir[p]}

\* SyncClient.start: the observer is started, then the initial scan runs;
\* the sync loop runs from here on.
Start(info) ==
    /\ ~isWatching
    /\ info \in FolderInfos(folder)
    /\ isWatching' = TRUE
    /\ fileState' = ScanFolder(fileState, folder, info)
    /\ cliLast' = [op |-> "start"]
    /\ UNCHANGED <<syncQueue, callbacks, folder, scanRest>>

\* FileWatcher.stop_watching
StopWatching ==
    /\ isWatching
    /\ isWatching' = FALSE
    /\ cliLast' = [op |-> "stop_watching"]
    /\ UNCHANGED <<fileState, syncQueue, callbacks, folder, scanRest>>

\* A file of the sync folder is written while the client is not running:
\* nothing observes it.
FolderWrite(file_path, checksum) ==
    /\ ~isWatching
    /\ folder' = [folder EXCEPT ![file_path] = checksum]
    /\ UNCHANGED <<watcherVars, isWatching, scanRest>>

\* A file of the sync folder is written while the client runs: the observer
\* reports it and process_file_event handles the notification.
WatchedWrite(event_type, file_path, file_info, now) ==
    /\ isWatching
    /\ event_type \in {"create", "modify"}
    /\ file_info.found
    /\ Len(syncQueue) < MaxQueue
    /\ folder' = [folder EXCEPT ![file_path] = file_info.checksum]
    /\ cliLast' = [op |-> "notify", event_type |-> event_type,
                   file_path |-> file_path, info |-> file_info]
    /\ LET done == ProcessEvent(fileState, syncQueue, event_type, file_path, file_info, now)
       IN  /\ fileState' = done.fileState
           /\ syncQueue' = done.syncQueue
           /\ callbacks' = IF done.called THEN callbacks + 1 ELSE callbacks
    /\ UNCHANGED <<isWatching, scanRest>>

\* One client of user u1 pulls while events of that user are accepted. The
\* client's clock does not run backwards between pulls.
PullTimes == {200, 300}

PullEvents ==
    {Event("a", "create", "h1", 1, t, 0) : t \in Timestamps}
    \cup {Event("b", "create", "h2", 2, 200, 0)}

NextPull ==
    \/ \E e \in PullEvents : SyncEvent(e, "u1")
    \/ \E got \in BOOLEAN, finished \in BOOLEAN, now \in PullTimes :
          /\ now >= lastSync
          /\ \E rows \in Orderings(GetChangesSince(smFiles, "u1", ChangesTimestamp(lastSync, now))) :
                \E o \in [DOMAIN rows -> ApplyOutcomes], n \in 0..Len(rows) :
                    PullChanges("u1", got, rows, o, n, finished, now)

SpecPull == Init /\ [][NextPull]_vars

\* C35: no accepted change is missed for good. In every state, each record
\* of the user that the server holds has been returned to the client by an
\* earlier pull or is returned by the next one, whenever that pull is made;
\* the mark only moves forward, so a record the next pull leaves out is left
\* out by every later pull too.
C35_NothingMissed ==
    \A now \in PullTimes :
        now >= lastSync =>
            \A r \in smFiles :
                r.owner_id = "u1" =>
                    r \in pulled \cup GetChangesSince(smFiles, "u1", ChangesTimestamp(lastSync, now))

\* The client is started and stopped; files change while it runs and while
\* it does not; the running client uploads what is queued.
NextScan ==
    \/ \E info \in FolderInfos(folder) : Start(info)
    \/ StopWatching
    \/ \E p \in Paths, c \in {"h1", "h2"} : FolderWrite(p, c)
    \/ \E k \in {"create", "modify"}, p \in Paths, f \in FileInfos : WatchedWrite(k, p, f, 1)
    \/ \E o \in [1..MaxQueue -> {"accepted", "rejected"}] :
          isWatching /\ UploadLocalChanges(o)

SpecScan == Init /\ [][NextScan]_vars

\* C36: every local file reaches the outbound queue. While the client runs,
\* every file of the sync folder has an event in the queue (pending, or
\* uploaded already); this covers the files the initial scan found and the
\* files written while the client was stopped.
C36_ScannedFilesQueued ==
    isWatching =>
        \A p \in Paths :
            folder[p] # Absent => \E i \in DOMAIN syncQueue : syncQueue[i].file_path = p

\* One file with one content appears at a path; the observer's create and
\* modify notifications for it are handled by two threads, each step of
\* process_file_event on its own.
NextRace ==
    \/ \E t \in WatcherThreads, k \in {"create", "modify"}, p \in Paths : Arrive(t, k, p)
    \/ \E t \in WatcherThreads : CheckState(t, CycleInfo)
    \/ \E t \in WatcherThreads : WriteState(t, CycleInfo, 1)
    \/ \E t \in WatcherThreads : Release(t)

SpecRace == Init /\ [][NextRace]_vars

\* C37: one change of content yields one outbound event. Each path gets
\* one content in this specification, so the queue never holds two events
\* for one path, however the create and modify notifications interleave.
C37_OneEventPerChange ==
    \A p \in Paths :
        Cardinality({i \in DOMAIN syncQueue : syncQueue[i].file_path = p}) <= 1

NextEcho ==
    \/ \E batch \in Batches :
          /\ Len(batch) = 1 /\ batch[1] \in CycleRecords
          /\ \E o \in [DOMAIN batch -> DownloadOutcomes] :
                 DownloadRemoteChanges(TRUE, batch, o)
    \/ \E k \in EventTypes, p \in Paths, f \in FileInfos :
          WatcherSeesDownload(k, p, f, 1)
    \/ \E o \in [1..MaxQueue -> {"accepted", "rejected"}] : UploadLocalChanges(o)

SpecEcho == Init /\ [][NextEcho]_vars

NextUploadPhase ==
    \/ \E k \in EventTypes, p \in Paths, f \in FileInfos \cup {NoInfo}, t \in ClockValues :
          Notify(k, p, f, t)
    \/ \E o \in [1..MaxQueue -> UploadOutcomes] : UploadLocalChanges(o)

SpecUploadPhase == Init /\ [][NextUploadPhase]_vars

NextDownload ==
    \/ DownloadRemoteChanges(FALSE, <<>>, <<>>)
    \/ \E batch \in Batches :
          \E o \in [DOMAIN batch -> DownloadOutcomes] : DownloadRemoteChanges(TRUE, batch, o)

SpecDownload == Init /\ [][NextDownload]_vars

NextPeriodicSync ==
    \E got \in BOOLEAN, batch \in Batches, finished \in BOOLEAN, now \in ClockValues :
        \E o \in [DOMAIN batch -> ApplyOutcomes], n \in 0..Len(batch) :
            PeriodicSync(got, batch, o, n, finished, now)

SpecPeriodicSync == Init /\ [][NextPeriodicSync]_vars

\* A handler of websocket_endpoint: which server runs it, its socket, and the
\* client id or user id of its URL.
Handler(server, websocket, id) == [server |-> server, ws |-> websocket, id |-> id]

\* A connection arrives with a WebSocket object of its own.
Fresh(websocket) == \A i \in DOMAIN wsOpen : wsOpen[i].ws # websocket

Without(list, i) == [j \in 1..(Len(list) - 1) |-> IF j < i THEN list[j] ELSE list[j + 1]]

\* main.py websocket_endpoint, lines 418-420: manager.connect, and the
\* handler enters its loop.
EndpointConnects(websocket, client_id) ==
    /\ Fresh(websocket)
    /\ wsConns' = [wsConns EXCEPT ![client_id] = websocket]
    /\ wsOpen' = Append(wsOpen, Handler("main", websocket, client_id))
    /\ UNCHANGED <<apiVars, wsLast, pubRest>>

\* main.py websocket_endpoint, lines 432-433: the connection of handler i
\* has closed, manager.disconnect(client_id) runs and the handler ends.
EndpointDisconnected(i) ==
    /\ wsOpen[i].server = "main"
    /\ wsConns' = [wsConns EXCEPT ![wsOpen[i].id] = NoSocket]
    /\ wsOpen' = Without(wsOpen, i)
    /\ UNCHANGED <<apiVars, wsLast, pubRest>>

\* websocket.py websocket_endpoint, line 47
WSEndpointConnects(websocket, user_id) ==
    /\ Fresh(websocket)
    /\ wsActive' = Append(wsActive, websocket)
    /\ wsUsers' = IF InList(wsUsers, user_id) THEN wsUsers ELSE Append(wsUsers, user_id)
    /\ wsUserSocket' = [wsUserSocket EXCEPT ![user_id] = websocket]
    /\ wsOpen' = Append(wsOpen, Handler("api", websocket, user_id))
    /\ UNCHANGED <<wsConns, wsLast, pubRest>>

\* websocket.py websocket_endpoint, lines 61-62
WSEndpointDisconnected(i) ==
    /\ wsOpen[i].server = "api"
    /\ IF InList(wsActive, wsOpen[i].ws)
       THEN /\ wsActive' = ListRemove(wsActive, wsOpen[i].ws)
            /\ wsUsers' = SelectSeq(wsUsers, LAMBDA u : u # wsOpen[i].id)
            /\ wsUserSocket' = [wsUserSocket EXCEPT ![wsOpen[i].id] = NoSocket]
       ELSE UNCHANGED apiVars
    /\ wsOpen' = Without(wsOpen, i)
    /\ UNCHANGED <<wsConns, wsLast, pubRest>>

\* Clients connect, reconnect under the same id and lose connections, on
\* both servers; open handlers receive messages.
NextReconnect ==
    \/ \E ws \in Sockets, c \in {"c1", "c2"} : EndpointConnects(ws, c)
    \/ \E i \in DOMAIN wsOpen : EndpointDisconnected(i)
    \/ \E i \in DOMAIN wsOpen, fails \in BOOLEAN :
          wsOpen[i].server = "main" /\ SendPersonalMessage(wsOpen[i].id, fails)
    \/ \E ws \in Sockets, u \in Users : WSEndpointConnects(ws, u)
    \/ \E i \in DOMAIN wsOpen : WSEndpointDisconnected(i)
    \/ \E i \in DOMAIN wsOpen :
          wsOpen[i].server = "api" /\ BroadcastFileEvent(wsOpen[i].id, {})

SpecReconnect == Init /\ [][NextReconnect]_vars

\* The socket a server has registered under an id.
RegisteredSocket(conns, users, server, id) ==
    IF server = "main" THEN conns[id] ELSE users[id]

\* Handler i is the latest open one of its id on its server.
Newest(open, i) ==
    \A j \in DOMAIN open :
        j > i => ~(open[j].server = open[i].server /\ open[j].id = open[i].id)

\* C38: the registry stays consistent across reconnects. When a handler
\* ends and runs its disconnect, the latest connection made under each id, if
\* it was registered before that step, is still registered after it; and in
\* the registry kept as a list and a map, the sockets of active_connections
\* are always exactly the values of user_connections.
C38_ReconnectKeepsNewer ==
    /\ [][Len(wsOpen') < Len(wsOpen) =>
             \A i \in DOMAIN wsOpen' :
                 LET h == wsOpen'[i]
                 IN  (Newest(wsOpen', i)
                      /\ RegisteredSocket(wsConns, wsUserSocket, h.server, h.id) = h.ws)
                     => RegisteredSocket(wsConns', wsUserSocket', h.server, h.id) = h.ws]_vars
    /\ []({wsActive[i] : i \in DOMAIN wsActive}
              = {wsUserSocket[u] : u \in Keys(wsUserSocket)})

\* Every client and every user holds one socket here.
SocketOf == [c1 |-> "s1", c2 |-> "s2", c3 |-> "s3", u1 |-> "s1", u2 |-> "s2"]

\* main.py login, lines 169-171: a client id is issued to the session of one
\* user; the user behind each client id.
ClientUser == [c1 |-> "u1", c2 |-> "u1", c3 |-> "u2"]

ownerRest == <<chunks, temp, putLog, resp, smVars, reqs, fmStored, stCalls, upload,
               watcherVars, inflightVars, syncInProgress, syncThreads, stopVars, uploadHist,
               folder, dlVars, markVars, pulled, isWatching, wsConns, apiVars, wsOpen>>

\* main.py upload_file (POST /files/upload) of current_user: the file is
\* stored by file_service.upload_file, then file_uploaded with the file id,
\* the user id and the path is broadcast.
PostUpload(user_id, client_id, file_path, file_data, salt) ==
    /\ UploadFilePass(user_id, file_path, file_data, salt)
    /\ wsLast' = [op |-> "upload_file", origin |-> client_id, user_id |-> user_id,
                  file_path |-> file_path, registered |-> Keys(wsConns), failing |-> {},
                  received |-> BroadcastTargets(Keys(wsConns), client_id),
                  completed |-> TRUE]
    /\ UNCHANGED ownerRest

\* Users upload, download and delete files while clients connect and
\* disconnect.
NextOwner ==
    \/ \E c \in Clients, p \in Paths : PostUpload(ClientUser[c], c, p, <<0>>, 7)
    \/ \E i \in 1..MaxFiles, u \in Users : DownloadFile(i, u)
    \/ \E i \in 1..MaxFiles, u \in Users : DeleteFile(i, u)
    \/ \E c \in Clients : Connect(SocketOf[c], c) \/ Disconnect(c)

SpecOwner == Init /\ [][NextOwner]_vars

\* C39: owner isolation. The file list and the download of a user hold only
\* files of that user, and the notification of an upload is delivered only
\* to channels of the user who owns the uploaded file.
C39_OwnerIsolation ==
    /\ \A u \in Users : \A i \in ListUserFiles(u) : files[i].user_id = u
    /\ \A u \in Users : \A i \in DOMAIN files :
          DownloadFileResult(i, u).found => files[i].user_id = u
    /\ wsLast.op = "upload_file" =>
          \A c \in wsLast.received : ClientUser[c] = wsLast.user_id

NextPublish ==
    \/ \E c \in Clients : Connect(SocketOf[c], c) \/ Disconnect(c)
    \/ \E c \in Clients, fails \in BOOLEAN : SendPersonalMessage(c, fails)
    \/ \E c \in Clients, failing \in SUBSET Clients : Broadcast(c, failing)
    \/ \E u \in Users :
          \/ ~InList(wsActive, SocketOf[u]) /\ WSConnect(SocketOf[u], u)
          \/ WSDisconnect(SocketOf[u], u)
    \/ \E u \in Users, failing \in SUBSET Users : BroadcastFileEvent(u, failing)

SpecPublish == Init /\ [][NextPublish]_vars

NextFM ==
    \/ \E b \in ByteSeqs, i \in FileIds, k \in FernetKeys : FMStore(b, i, k)
    \/ \E i \in FileIds, k \in FernetKeys : FMRetrieve(i, k)
    \/ \E i \in FileIds : FMDelete(i)

SpecFM == Init /\ [][NextFM]_vars

NextRoutes ==
    \/ \E p \in Paths, b \in ByteSeqs, k \in FernetKeys, t \in {0, 200} :
          RoutesUpload("u1", p, b, k, t)
    \/ \E r \in smFiles, u \in Users, k \in FernetKeys : RoutesDownload(r.id, u, k)
    \/ \E e \in BasicEvents : SyncEvent(e, "u1")

SpecRoutes == Init /\ [][NextRoutes]_vars

(***************************************************************************)
(* Claims about the FileService and the content store                      *)
(***************************************************************************)
MaxVersion(rows, user_id, file_path) ==
    LET S == {rows[i].version_number : i \in RowsAt(rows, user_id, file_path)}
    IN  CHOOSE v \in S : \A w \in S : w <= v

RowsOf(rows, user_id, file_path) ==
    {<<i, rows[i]>> : i \in RowsAt(rows, user_id, file_path)}

\* C1: for every (owner, path) that has a record, each step that changes the
\* records of that path (an upload to it, a delete of it) leaves the path
\* with a version_number strictly greater than before.
C1_VersionStrictlyIncreases ==
    [][\A u \in Users, p \in Paths :
          (/\ RowsAt(files, u, p) # {}
           /\ RowsOf(files', u, p) # RowsOf(files, u, p))
          => MaxVersion(files', u, p) > MaxVersion(files, u, p)]_vars

\* C2: the files table holds at most one live row per (owner, path).
C2_AtMostOneLiveRecord ==
    \A u \in Users, p \in Paths : Cardinality(Live(files, u, p)) <= 1

\* C7: every byte sequence put under its SHA-256 hash (and not deleted
\* since) is retrieved exactly, the empty sequence included, whatever other
\* puts, deletes and chunk stores happened on other hashes.
C7_RoundTrip ==
    /\ \A h \in DOMAIN putLog : RetrieveFileContent(content, h) = Found(putLog[h])
    /\ (resp.op = "retrieve" /\ resp.hash \in DOMAIN putLog)
          => resp.data = Found(putLog[resp.hash])

C7_Witness ==
    /\ resp.op = "retrieve"
    /\ resp.hash \in DOMAIN putLog
    /\ putLog[resp.hash] = <<>>
    /\ resp.data = Found(<<>>)
    /\ \E h \in DOMAIN putLog :
          /\ h # resp.hash
          /\ SubSeq(h, 1, 4) = SubSeq(resp.hash, 1, 4)
    /\ chunks # <<>>

\* C8: a download of a live uploaded file by its owner succeeds and returns
\* exactly the bytes that were uploaded, the empty sequence included.
C8_DownloadReturnsUpload ==
    /\ \A i \in DOMAIN files :
          ~files[i].is_deleted
             => DownloadFileResult(i, files[i].user_id) = Found(sent[i])
    /\ (/\ resp.op = "download"
        /\ resp.file_id \in DOMAIN files
        /\ ~files[resp.file_id].is_deleted
        /\ resp.status = 200)
          => resp.body = sent[resp.file_id]

\* The uploads of the same bytes reference one blob.
SameBytesSameBlob(rows, history) ==
    \A i, j \in DOMAIN rows :
        history[i] = history[j]
           => /\ rows[i].checksum = rows[j].checksum
              /\ rows[i].storage_path = rows[j].storage_path

C10_BlobImmutable ==
    [][resp'.op # "delete"
          => /\ \A h \in Hashes :
                   RetrieveFileContent(content, h).found
                      => RetrieveFileContent(content', h) = RetrieveFileContent(content, h)
             /\ \A c \in DOMAIN chunks :
                   c \in DOMAIN chunks' /\ chunks'[c] = chunks[c]]_vars

C10_Witness ==
    /\ resp.op = "store"
    /\ RetrieveFileContent(content, resp.hash).found
    /\ RetrieveFileContent(content, resp.hash).data # resp.data
    /\ chunks # <<>>

(***************************************************************************)
(* Claims about the SyncManager                                            *)
(***************************************************************************)
IsWrite(e) == e.event_type \in {"create", "modify"}

\* The table after process_file_event(e1) and then process_file_event(e2).
AfterBoth(table, e1, e2, u) ==
    ProcessFileEvent(ProcessFileEvent(table, smDisk, e1, u).table, smDisk, e2, u).table

CarriesEvent(table, e, u) ==
    /\ Matching(table, e.file_path, u) # {}
    /\ \A r \in Matching(table, e.file_path, u) :
          /\ r.checksum = e.checksum
          /\ r.size = e.size
          /\ r.modified_at = e.timestamp

C5_ConflictOutcome ==
    \A u \in Users : \A e \in SMEvents : \A r \in Matching(smFiles, e.file_path, u) :
        (IsWrite(e) /\ DetectConflict(r, e))
        => LET out == ProcessFileEvent(smFiles, smDisk, e, u)
           IN  IF e.timestamp > r.modified_at
               THEN /\ CarriesEvent(out.table, e, u)
                    /\ \A n \in Matching(out.table, e.file_path, u) :
                          n.version_vector > r.version_vector
                    /\ out.result.status = "conflict_resolved"
                    /\ out.result.resolution = "new_version_wins"
               ELSE /\ out.table = smFiles
                    /\ out.result.status = "conflict_resolved"
                    /\ out.result.resolution = "existing_version_wins"
                    /\ out.result.current_version =
                          [checksum |-> r.checksum, modified_at |-> r.modified_at]

\* C6: a Delete event on a path with a live record keeps the row, marks it
\* deleted with a bumped version, and a changes-since pull from before the
\* delete returns the row.
C6_DeleteTombstones ==
    \A u \in Users : \A e \in SMEvents : \A r \in Matching(smFiles, e.file_path, u) :
        (e.event_type = "delete" /\ ~r.is_deleted)
        => LET out == ProcessFileEvent(smFiles, smDisk, e, u)
           IN  /\ Cardinality(out.table) = Cardinality(smFiles)
               /\ \E n \in out.table :
                     /\ n.id = r.id
                     /\ n.is_deleted
                     /\ n.version_vector > r.version_vector
                     /\ \A since \in Timestamps :
                           since < e.timestamp
                              => n \in GetChangesSince(out.table, u, since)

RECURSIVE SeqOutcomes(_, _)
\* The tables that processing the requests of R one after the other, in
\* some order, leaves.
SeqOutcomes(table, R) ==
    IF R = {} THEN {table}
    ELSE UNION {SeqOutcomes(ProcessFileEvent(table, smDisk, reqs[k].event,
                                             reqs[k].user).table, R \ {k}) : k \in R}

\* C4: when no request is in flight, the table is what processing the
\* requests served so far in some sequential order leaves; one (owner, path)
\* never has two rows.
C4_Serialized ==
    (\A k \in DOMAIN reqs : reqs[k].pc = "done")
       => /\ smFiles \in SeqOutcomes({}, DOMAIN reqs)
          /\ \A r1, r2 \in smFiles :
                (r1.path = r2.path /\ r1.owner_id = r2.owner_id) => r1 = r2

(***************************************************************************)
(* Claims about stored content                                             *)
(***************************************************************************)
\* C11: after any sequence of uploads, sync events and deletes, every file
\* that was stored is still in the storage directory and can be read back
\* with the bytes it was stored with.
C11_ContentNeverDeleted ==
    \A s \in fmStored :
        /\ s.file_id \in DOMAIN smDisk
        /\ \E k \in FernetKeys :
              FMRetrieveFile(smDisk, s.file_id, k, TRUE) = Found(s.data)

\* C13: a retrieve of a name that was never stored answers not-found, and a
\* retrieve that answers bytes answers bytes that were stored under that
\* name, never raw or undecoded data.
C13_NotFoundNotGarbage ==
    resp.op = "fm_retrieve"
       => /\ (\A s \in fmStored : s.file_id # resp.file_id) => resp.data = NotFound
          /\ resp.data.found
                => \E s \in fmStored : /\ s.file_id = resp.file_id
                                       /\ s.data = resp.data.data

StoreInFlight(h) ==
    \E t \in Storers : /\ stCalls[t].op = "store" /\ stCalls[t].hash = h
                       /\ stCalls[t].pc # "done"

\* C12: once every store call of a hash has returned, the blob under the
\* hash is the bytes stored; a retrieve running concurrently with the store
\* calls returns not-found or the complete bytes of the hash.
C12_ConcurrentStoreSafe ==
    /\ \A t \in Storers :
          (stCalls[t].op = "store" /\ ~StoreInFlight(stCalls[t].hash))
             => RetrieveFileContent(content, stCalls[t].hash) = Found(stCalls[t].data)
    /\ \A t \in Readers :
          (stCalls[t].op = "retrieve" /\ stCalls[t].pc = "done" /\ stCalls[t].result.found)
             => SHA256(stCalls[t].result.data) = stCalls[t].hash

(***************************************************************************)
(* Claims about chunked transfer                                           *)
(***************************************************************************)
\* C14: when the chunks of a file, each tagged with its chunk_number, have
\* all arrived, in whatever order, reconstruction yields the bytes of the
\* original file, on the server (reconstruct_file_from_chunks) and with
\* FileChunker.reconstruct_file.
C14_ChunkOrderIndependence ==
    (upload.begun /\ upload.pending = {})
       => /\ ReconstructFileFromChunks(temp, upload.upload_id, upload.total)
                = Found(upload.file)
          /\ ReconstructFile(upload.arrived).ok
          /\ ReconstructFile(upload.arrived).output = Found(upload.file)

\* The chunks arrived in descending order, the last chunk is a short one.
C14_Witness ==
    /\ upload.begun /\ upload.pending = {}
    /\ Len(upload.arrived) >= 2
    /\ upload.arrived[1].chunk_number > upload.arrived[2].chunk_number
    /\ Len(upload.file) % ChunkSize # 0
    /\ resp.op = "reconstruct_file"
    /\ resp.data = Found(upload.file)

\* C15: while a chunk number of 0..total_chunks-1 has not arrived,
\* reconstruction fails and leaves no output, on the server and with
\* FileChunker.reconstruct_file, and the chunks received stay in place.
C15_IncompleteUploadFails ==
    (upload.begun /\ upload.pending # {})
       => /\ ~ReconstructFileFromChunks(temp, upload.upload_id, upload.total).found
          /\ ~ReconstructFile(upload.arrived).ok
          /\ ~ReconstructFile(upload.arrived).output.found
          /\ \A i \in DOMAIN upload.arrived :
                /\ <<upload.upload_id, upload.arrived[i].chunk_number>> \in DOMAIN temp
                /\ temp[<<upload.upload_id, upload.arrived[i].chunk_number>>]
                      = upload.arrived[i].data

(***************************************************************************)
(* Claims about the client                                                 *)
(***************************************************************************)
\* The pending rows in the order in which they were enqueued.
RECURSIVE InsertionOrder(_)
InsertionOrder(queue) ==
    IF queue = <<>> THEN <<>>
    ELSE LET front == InsertionOrder(SubSeq(queue, 1, Len(queue) - 1))
             last == queue[Len(queue)]
         IN  IF last.status = "pending" THEN Append(front, Listed(last)) ELSE front

\* C16: the pending listing is the enqueued, not yet acknowledged events,
\* each once, in the order in which they were enqueued, whatever their
\* paths and timestamps; listing does not change the queue.
C16_PendingInInsertionOrder ==
    /\ \A l \in GetPendingSyncEvents(syncQueue) : l = InsertionOrder(syncQueue)
    /\ cliLast.op = "pending" => cliLast.listing = InsertionOrder(syncQueue)

\* C17: acknowledging an event id takes exactly that event out of the
\* pending listing and leaves every other row as it was; acknowledging it
\* again, or acknowledging an id that does not exist, changes nothing.
C17_AckIdempotent ==
    \A event_id \in 1..(Len(syncQueue) + 1) :
        LET once == MarkSyncEventCompleted(syncQueue, event_id)
        IN  /\ Pending(once) = Pending(syncQueue) \ {event_id}
            /\ \A i \in DOMAIN syncQueue : i # event_id => once[i] = syncQueue[i]
            /\ DOMAIN once = DOMAIN syncQueue
            /\ MarkSyncEventCompleted(once, event_id) = once
            /\ event_id \notin Pending(syncQueue) => once = syncQueue

\* An id was acknowledged a second time while another event is pending.
C17_Witness ==
    /\ cliLast.op = "ack"
    /\ ~cliLast.was_pending
    /\ cliLast.event_id \in DOMAIN syncQueue
    /\ Pending(syncQueue) # {}

\* C18: a create/modify notification whose computed checksum and size equal
\* the recorded state of the path enqueues nothing, invokes no callback and
\* leaves the recorded state as it was.
C18_NoOpSuppression ==
    [][(/\ cliLast'.op = "notify"
        /\ cliLast'.event_type \in {"create", "modify"}
        /\ cliLast'.info.found
        /\ cliLast'.file_path \in DOMAIN fileState
        /\ fileState[cliLast'.file_path].checksum = cliLast'.info.checksum
        /\ fileState[cliLast'.file_path].file_size = cliLast'.info.file_size)
          => /\ syncQueue' = syncQueue
             /\ callbacks' = callbacks
             /\ fileState' = fileState]_vars

\* The file was touched: same content, another mtime; nothing was enqueued.
C18_Witness ==
    /\ cliLast.op = "notify"
    /\ cliLast.event_type = "modify"
    /\ cliLast.info.found
    /\ cliLast.file_path \in DOMAIN fileState
    /\ fileState[cliLast.file_path].checksum = cliLast.info.checksum
    /\ fileState[cliLast.file_path].file_size = cliLast.info.file_size
    /\ fileState[cliLast.file_path].modified_time # cliLast.info.modified_time
    /\ Len(syncQueue) = 1
    /\ callbacks = 1

\* C19: no two threads are at once inside the upload or download phase of
\* sync_once, and a trigger leaves no thread waiting for the running cycle.
C19_OneCycleAtATime ==
    Cardinality({t \in SyncThreadNames : syncThreads[t] \in {"upload", "download"}}) <= 1

\* C20: an event of the queue, whatever its kind, is marked completed only
\* if it was sent to the server and the server accepted it.
C20_CompletedOnlyIfAccepted ==
    \A i \in DOMAIN syncQueue :
        syncQueue[i].status = "completed" => i \in accepted

\* C21: upload_file runs for one event at most max_retries times; an event
\* that failed that often is no longer retried.
C21_RetriesBounded ==
    \A i \in DOMAIN syncQueue : attempts[i] <= MaxRetries

\* The entry of the last download phase that touched file_path last.
LastTouch(file_path) ==
    {i \in DOMAIN dlLog :
        /\ dlLog[i].file_info.file_path = file_path
        /\ \A j \in DOMAIN dlLog : dlLog[j].file_info.file_path = file_path => j <= i}

\* C22: in the download phase a record that is not deleted is downloaded and
\* written exactly when the local file is absent or has another checksum (a
\* matching file is left untouched); a deleted record removes the local file
\* if it exists and does nothing if the file is absent.
C22_DownloadPhase ==
    /\ \A i \in DOMAIN dlLog :
          LET e == dlLog[i] IN
          IF e.file_info.is_deleted
          THEN ~e.requested /\ e.after = Absent
          ELSE /\ e.requested <=> (e.before = Absent \/ e.before # e.file_info.checksum)
               /\ e.requested /\ e.outcome # "failed" => e.after = e.outcome
               /\ ~e.requested => e.after = e.before
    /\ \A p \in Paths : \A i \in LastTouch(p) : folder[p] = dlLog[i].after

C22_Witness ==
    /\ Len(dlLog) = 2
    /\ ~dlLog[1].file_info.is_deleted /\ dlLog[1].before = dlLog[1].file_info.checksum
    /\ dlLog[2].file_info.is_deleted /\ dlLog[2].before # Absent
    /\ folder[dlLog[2].file_info.file_path] = Absent

\* C23: the high-water mark advances only when every record of the pulled
\* batch was applied successfully; when applying a record failed, or the
\* process stopped mid-batch, the mark keeps its previous value.
C23_MarkOnlyAfterWholeBatch ==
    psLast.op = "periodic_sync" /\ (psLast.failed # {} \/ ~psLast.finished)
        => lastSync = psLast.before

Publishes == {"broadcast", "broadcast_file_event"}

\* Where the published message has arrived, the state of the manager after it.
RegisteredNow ==
    IF wsLast.op = "broadcast" THEN Keys(wsConns)
    ELSE {wsUsers[i] : i \in DOMAIN wsUsers}

\* C24: a change notification is sent to every registered channel other than
\* the originating client, and never to the originating client itself.
C24_NotSentToOrigin ==
    wsLast.op \in Publishes =>
        /\ wsLast.origin \notin wsLast.received
        /\ wsLast.failing = {} => wsLast.received = wsLast.registered \ {wsLast.origin}

\* C25: when sending to one channel fails during a publish, every other
\* registered channel that is not excluded still receives the message, the
\* publish completes without error, and the failed channel is no longer
\* registered.
C25_FailureIsolated ==
    wsLast.op \in Publishes /\ wsLast.failing # {} =>
        /\ wsLast.registered \ (wsLast.failing \cup {wsLast.origin}) \subseteq wsLast.received
        /\ wsLast.completed
        /\ wsLast.failing \cap RegisteredNow = {}

FilePhases == {"upload", "download"}

\* C26: once stop is requested the running cycle starts no further file
\* operation, and when stop() has returned no sync cycle, whether of the timer
\* loop or of a manual trigger, is running or starts afterwards.
C26_AbortOnStop ==
    [][/\ stopSync =>
            \A t \in SyncThreadNames :
                syncThreads'[t] \in FilePhases => syncThreads'[t] = syncThreads[t]
       /\ stopper' = "stopped" => \A t \in SyncThreadNames : syncThreads'[t] = "idle"]_vars

\* The events of the last upload pass that a failed upload left pending.
FailedUploads ==
    {i \in DOMAIN syncQueue :
        /\ syncQueue[i].status = "pending"
        /\ syncQueue[i].event_type \in {"create", "modify"}
        /\ attempts[i] > 0}

\* C27: a failure on one pending event or one remote change does not stop
\* synchronization: the other items of the cycle are still processed, the
\* cycle ends with sync_in_progress cleared, also when it raised, and the
\* next scheduled cycle runs.
C27_FailureDoesNotStopSync ==
    /\ [](Len(dlLog) = dlPulled)
    /\ [][syncThreads[LoopThread] = "upload" /\ syncThreads'[LoopThread] = "download"
             => \A i \in Pending(syncQueue) :
                   IF syncQueue[i].event_type = "delete"
                   THEN syncQueue'[i].status = "completed"
                   ELSE attempts'[i] > attempts[i] \/ attempts[i] > MaxRetries]_vars
    /\ [][syncThreads[LoopThread] = "finally" /\ syncThreads'[LoopThread] = "idle"
             => ~syncInProgress']_vars
    /\ (syncThreads[LoopThread] \in {"upload", "download", "heartbeat", "finally"}
            ~> (syncThreads[LoopThread] = "idle" /\ ~syncInProgress))
    /\ (syncThreads[LoopThread] = "idle" ~> syncThreads[LoopThread] = "check")

C27_Witness ==
    /\ syncThreads[LoopThread] = "check"
    /\ dlPulled = 2
    /\ dlLog[1].outcome = "failed"
    /\ dlLog[2].requested /\ dlLog[2].outcome # "failed"
    /\ FailedUploads # {}

\* C28: a Create/Modify event on an existing record whose checksum differs and
\* whose modified_at is 300 s or more away from the event, either way, is an
\* ordinary update: checksum, size and modified_at are overwritten with the
\* event's, the version is bumped, and the answer is updated, not a conflict.
C28_OrdinaryUpdate ==
    \A u \in Users : \A e \in SMEvents : \A r \in Matching(smFiles, e.file_path, u) :
        (/\ IsWrite(e)
         /\ r.checksum # e.checksum
         /\ Abs(r.modified_at - e.timestamp) >= ConflictWindow)
        => LET out == ProcessFileEvent(smFiles, smDisk, e, u)
           IN  /\ CarriesEvent(out.table, e, u)
               /\ \A n \in Matching(out.table, e.file_path, u) :
                     n.version_vector > r.version_vector
               /\ out.result.status = "updated"

\* The rows the last move appended to the queue, in their order.
MoveRows == SubSeq(syncQueue, cliLast.first_new, Len(syncQueue))

\* C29: a move inside the folder queues a Delete for the old path and then a
\* Create for the new path, the callback is called for them in that order,
\* and every pending listing has the Delete before the Create.
C29_MoveIsDeleteThenCreate ==
    cliLast.op = "moved" =>
        /\ Len(MoveRows) = 2
        /\ MoveRows[1].event_type = "delete" /\ MoveRows[1].file_path = cliLast.src_path
        /\ MoveRows[2].event_type = "create" /\ MoveRows[2].file_path = cliLast.dest_path
        /\ cliLast.delivered =
              <<[event_type |-> "delete", file_path |-> cliLast.src_path],
                [event_type |-> "create", file_path |-> cliLast.dest_path]>>
        /\ \A l \in GetPendingSyncEvents(syncQueue) : \A i, j \in DOMAIN l :
              l[i].id = MoveRows[1].id /\ l[j].id = MoveRows[2].id => i < j

\* C30: at most one thread processes a given (event kind, path) pair at a
\* time; a notification that arrives while its pair is in flight is dropped
\* without touching the file state or the queue; the in-flight set holds a
\* key exactly while a thread processes it, also when the body raised.
C30_InFlightSet ==
    /\ [](\A t, w \in WatcherThreads :
              InBody(t) /\ InBody(w) /\ wThreads[t].key = wThreads[w].key => t = w)
    /\ [](processing = {wThreads[t].key : t \in {w \in WatcherThreads : InBody(w)}})
    /\ [][cliLast'.op = "dropped" /\ cliLast' # cliLast
             => UNCHANGED <<fileState, syncQueue, callbacks, processing>>]_vars

C30_Witness ==
    /\ cliLast.op = "dropped"
    /\ \E t \in WatcherThreads :
          /\ t # cliLast.thread
          /\ InBody(t)
          /\ wThreads[t].key = cliLast.event_key
    /\ Len(syncQueue) > 0

\* The event changed the record: it created it, updated it or won a conflict.
Accepted(result) ==
    \/ result.status \in {"created", "updated"}
    \/ result.status = "conflict_resolved" /\ result.resolution = "new_version_wins"

\* C31: when a Create/Modify event is accepted for a path whose record is a
\* tombstone, the record is live again afterwards and is in the owner's
\* file list.
C31_RecreateAfterDelete ==
    \A u \in Users : \A e \in SMEvents : \A r \in Matching(smFiles, e.file_path, u) :
        LET out == ProcessFileEvent(smFiles, smDisk, e, u)
        IN  (IsWrite(e) /\ r.is_deleted /\ Accepted(out.result))
            => /\ \A n \in Matching(out.table, e.file_path, u) : ~n.is_deleted
               /\ \E n \in GetFileList(out.table, u) : n.path = e.file_path

\* C32: last write wins: after a Create/Modify event with a timestamp other
\* than the record's modified_at, the record has the checksum and modified_at
\* of the later of the two, so processing events with distinct timestamps in
\* any order ends with the latest one and modified_at never decreases.
C32_LastWriteWins ==
    \A u \in Users : \A e \in SMEvents : \A r \in Matching(smFiles, e.file_path, u) :
        (IsWrite(e) /\ e.timestamp # r.modified_at)
        => \A n \in Matching(ProcessFileEvent(smFiles, smDisk, e, u).table, e.file_path, u) :
              IF e.timestamp > r.modified_at
              THEN n.checksum = e.checksum /\ n.modified_at = e.timestamp
              ELSE n.checksum = r.checksum /\ n.modified_at = r.modified_at

\* The paths whose latest row in the queue is a Delete.
DeletedPaths ==
    {p \in Paths : \E i \in DOMAIN syncQueue :
        /\ syncQueue[i].file_path = p
        /\ syncQueue[i].event_type = "delete"
        /\ \A j \in DOMAIN syncQueue : syncQueue[j].file_path = p => j <= i}

\* C33: after a Delete event for a path, the creation of a file at that path
\* queues a Create event, also when the file has the checksum and size the
\* path had before the delete.
C33_CreateAfterDelete ==
    \A p \in DeletedPaths : \A f \in FileInfos : \A t \in ClockValues :
        LET done == ProcessEvent(fileState, syncQueue, "create", p, f, t)
        IN  /\ done.called
            /\ Len(done.syncQueue) = Len(syncQueue) + 1
            /\ done.syncQueue[Len(done.syncQueue)].event_type = "create"
            /\ done.syncQueue[Len(done.syncQueue)].file_path = p

\* C34: a file that the download phase wrote into the folder makes the
\* client queue and upload nothing: where every file of the folder comes
\* from a download, the queue stays empty and the server accepts no upload.
C34_NoEcho ==
    syncQueue = <<>> /\ accepted = {}

\* C40: uploads do not interfere. Every upload stores its content under a
\* key of its own (the id its event got when it was created without one),
\* and the step of an upload leaves the content stored before it unchanged.
C40_UploadsDoNotInterfere ==
    /\ [](\A s, t \in fmStored : s # t => s.file_id # t.file_id)
    /\ [][fmStored' # fmStored =>
             \A k \in DOMAIN smDisk : k \in DOMAIN smDisk' /\ smDisk'[k] = smDisk[k]]_vars

=============================================================================
